---- MODULE Spec2Model ----
(* State-machine model of the flashlight / SOS / Morse transmitter of the     *)
(* FlashlightScreen component (src/src/screens/CompassScreen.tsx, lines       *)
(* 476-1183).  Every async pulse loop is a process suspended at one of its    *)
(* `await sleep(ms)` statements; JavaScript runs the code between two awaits  *)
(* atomically, so one action models one such run.  A handler reads the        *)
(* React state of the latest render, which is the committed state.            *)
(*                                                                            *)
(* SpecTimed counts the time in milliseconds: a sleeping loop resumes exactly *)
(* when its duration has passed (timers due at the same instant fire in any   *)
(* order).  Spec drops the clock and lets a sleeping loop resume at any       *)
(* moment: setTimeout promises no upper bound, and every behaviour of         *)
(* SpecTimed is, without its Tick steps, a behaviour of Spec.                 *)
EXTENDS Integers, Sequences, FiniteSets, TLC

(* ------------------------------------------------------------------------ *)
(* Bounds of the model                                                        *)
(* ------------------------------------------------------------------------ *)
\* number of pulse loops that may be alive (started, not yet returned) at once
MaxLoops == 2
\* number of pulse loops started in one behaviour
MaxStarts == 2
\* the time since a stop request is counted up to this many clock ticks
MaxStopTicks == 5
\* number of output segments the oscilloscope on the torch records
MaxSegments == 40
\* cumulativeRotationRef is followed up to this many degrees either way
MaxRotation == 720

(* ------------------------------------------------------------------------ *)
(* Program constants                                                          *)
(* ------------------------------------------------------------------------ *)
SHORT_FLASH == 200
LONG_FLASH == 600
PAUSE == 200
PATTERN_PAUSE == 800
T == 200
\* the faulty variant of DASH_DURATION: a dash of two units
DASH_DURATION_TwoUnits == 2 * T
DOT_DURATION == T
DASH_DURATION == 3 * T
\* the faulty variant of PAUSE_LETTERS: one unit between letters
PAUSE_LETTERS_OneUnit == T
PAUSE_PARTS == T
PAUSE_LETTERS == 3 * T
PAUSE_WORDS == 7 * T
\* granularity of the clock: every sleep duration is a multiple of T
TickMs == T
\* CompassScreen
TEXT_UPDATE_INTERVAL == 250
NORTH_TOLERANCE == 5
\* faulty variant: the haptic is held back for 500 ms only, twice the
\* interval of the text
HAPTIC_DEBOUNCE_Short == 2 * TEXT_UPDATE_INTERVAL
HAPTIC_DEBOUNCE == 1000

MORSE_CODE ==
  [c \in {"A","B","C","D","E","F","G","H","I","J","K","L","M","N","O","P","Q",
          "R","S","T","U","V","W","X","Y","Z",
          "0","1","2","3","4","5","6","7","8","9"} |->
     CASE c = "A" -> <<".","-">>
       [] c = "B" -> <<"-",".",".",".">>
       [] c = "C" -> <<"-",".","-",".">>
       [] c = "D" -> <<"-",".",".">>
       [] c = "E" -> <<".">>
       [] c = "F" -> <<".",".","-",".">>
       [] c = "G" -> <<"-","-",".">>
       [] c = "H" -> <<".",".",".",".">>
       [] c = "I" -> <<".",".">>
       [] c = "J" -> <<".","-","-","-">>
       [] c = "K" -> <<"-",".","-">>
       [] c = "L" -> <<".","-",".",".">>
       [] c = "M" -> <<"-","-">>
       [] c = "N" -> <<"-",".">>
       [] c = "O" -> <<"-","-","-">>
       [] c = "P" -> <<".","-","-",".">>
       [] c = "Q" -> <<"-","-",".","-">>
       [] c = "R" -> <<".","-",".">>
       [] c = "S" -> <<".",".",".">>
       [] c = "T" -> <<"-">>
       [] c = "U" -> <<".",".","-">>
       [] c = "V" -> <<".",".",".","-">>
       [] c = "W" -> <<".","-","-">>
       [] c = "X" -> <<"-",".",".","-">>
       [] c = "Y" -> <<"-",".","-","-">>
       [] c = "Z" -> <<"-","-",".",".">>
       [] c = "0" -> <<"-","-","-","-","-">>
       [] c = "1" -> <<".","-","-","-","-">>
       [] c = "2" -> <<".",".","-","-","-">>
       [] c = "3" -> <<".",".",".","-","-">>
       [] c = "4" -> <<".",".",".",".","-">>
       [] c = "5" -> <<".",".",".",".",".">>
       [] c = "6" -> <<"-",".",".",".",".">>
       [] c = "7" -> <<"-","-",".",".",".">>
       [] c = "8" -> <<"-","-","-",".",".">>
       [] c = "9" -> <<"-","-","-","-",".">>]

(* ------------------------------------------------------------------------ *)
(* Text handling: a text is a sequence of one-character strings               *)
(* ------------------------------------------------------------------------ *)
LowerCase == <<"a","b","c","d","e","f","g","h","i","j","k","l","m","n","o","p",
               "q","r","s","t","u","v","w","x","y","z">>
UpperCase == <<"A","B","C","D","E","F","G","H","I","J","K","L","M","N","O","P",
               "Q","R","S","T","U","V","W","X","Y","Z">>

\* A character is one UTF-16 code unit, written as a one-character string; a
\* code unit that a string of this module cannot hold (a code above U+00FF
\* whose low byte is below 0x80, and every surrogate) is written as its
\* JavaScript escape, the six-character string \uXXXX.  A character outside
\* the Basic Multilingual Plane is the two surrogates of its pair.
\*
\* The code units beyond a-z that String.prototype.toUpperCase changes, each
\* with the code units it becomes (Unicode 17 default case conversion with
\* the unconditional special casing, as toUpperCase applies it)
UnicodeUpper ==
  <<
     <<"µ", <<"Μ">>>>, <<"ß", <<"S", "S">>>>, <<"à", <<"À">>>>,
     <<"á", <<"Á">>>>, <<"â", <<"Â">>>>, <<"ã", <<"Ã">>>>,
     <<"ä", <<"Ä">>>>, <<"å", <<"Å">>>>, <<"æ", <<"Æ">>>>,
     <<"ç", <<"Ç">>>>, <<"è", <<"È">>>>, <<"é", <<"É">>>>,
     <<"ê", <<"Ê">>>>, <<"ë", <<"Ë">>>>, <<"ì", <<"Ì">>>>,
     <<"í", <<"Í">>>>, <<"î", <<"Î">>>>, <<"ï", <<"Ï">>>>,
     <<"ð", <<"Ð">>>>, <<"ñ", <<"Ñ">>>>, <<"ò", <<"Ò">>>>,
     <<"ó", <<"Ó">>>>, <<"ô", <<"Ô">>>>, <<"õ", <<"Õ">>>>,
     <<"ö", <<"Ö">>>>, <<"ø", <<"Ø">>>>, <<"ù", <<"Ù">>>>,
     <<"ú", <<"Ú">>>>, <<"û", <<"Û">>>>, <<"ü", <<"Ü">>>>,
     <<"ý", <<"Ý">>>>, <<"þ", <<"Þ">>>>, <<"ÿ", <<"\\u0178">>>>,
     <<"\\u0101", <<"\\u0100">>>>, <<"\\u0103", <<"\\u0102">>>>, <<"\\u0105", <<"\\u0104">>>>,
     <<"\\u0107", <<"\\u0106">>>>, <<"\\u0109", <<"\\u0108">>>>, <<"\\u010B", <<"\\u010A">>>>,
     <<"\\u010D", <<"\\u010C">>>>, <<"\\u010F", <<"\\u010E">>>>, <<"\\u0111", <<"\\u0110">>>>,
     <<"\\u0113", <<"\\u0112">>>>, <<"\\u0115", <<"\\u0114">>>>, <<"\\u0117", <<"\\u0116">>>>,
     <<"\\u0119", <<"\\u0118">>>>, <<"\\u011B", <<"\\u011A">>>>, <<"\\u011D", <<"\\u011C">>>>,
     <<"\\u011F", <<"\\u011E">>>>, <<"\\u0121", <<"\\u0120">>>>, <<"\\u0123", <<"\\u0122">>>>,
     <<"\\u0125", <<"\\u0124">>>>, <<"\\u0127", <<"\\u0126">>>>, <<"\\u0129", <<"\\u0128">>>>,
     <<"\\u012B", <<"\\u012A">>>>, <<"\\u012D", <<"\\u012C">>>>, <<"\\u012F", <<"\\u012E">>>>,
     <<"\\u0131", <<"I">>>>, <<"\\u0133", <<"\\u0132">>>>, <<"\\u0135", <<"\\u0134">>>>,
     <<"\\u0137", <<"\\u0136">>>>, <<"\\u013A", <<"\\u0139">>>>, <<"\\u013C", <<"\\u013B">>>>,
     <<"\\u013E", <<"\\u013D">>>>, <<"\\u0140", <<"\\u013F">>>>, <<"\\u0142", <<"\\u0141">>>>,
     <<"\\u0144", <<"\\u0143">>>>, <<"\\u0146", <<"\\u0145">>>>, <<"\\u0148", <<"\\u0147">>>>,
     <<"\\u0149", <<"ʼ", "N">>>>, <<"\\u014B", <<"\\u014A">>>>, <<"\\u014D", <<"\\u014C">>>>,
     <<"\\u014F", <<"\\u014E">>>>, <<"\\u0151", <<"\\u0150">>>>, <<"\\u0153", <<"\\u0152">>>>,
     <<"\\u0155", <<"\\u0154">>>>, <<"\\u0157", <<"\\u0156">>>>, <<"\\u0159", <<"\\u0158">>>>,
     <<"\\u015B", <<"\\u015A">>>>, <<"\\u015D", <<"\\u015C">>>>, <<"\\u015F", <<"\\u015E">>>>,
     <<"\\u0161", <<"\\u0160">>>>, <<"\\u0163", <<"\\u0162">>>>, <<"\\u0165", <<"\\u0164">>>>,
     <<"\\u0167", <<"\\u0166">>>>, <<"\\u0169", <<"\\u0168">>>>, <<"\\u016B", <<"\\u016A">>>>,
     <<"\\u016D", <<"\\u016C">>>>, <<"\\u016F", <<"\\u016E">>>>, <<"\\u0171", <<"\\u0170">>>>,
     <<"\\u0173", <<"\\u0172">>>>, <<"\\u0175", <<"\\u0174">>>>, <<"\\u0177", <<"\\u0176">>>>,
     <<"\\u017A", <<"\\u0179">>>>, <<"\\u017C", <<"\\u017B">>>>, <<"\\u017E", <<"\\u017D">>>>,
     <<"\\u017F", <<"S">>>>, <<"ƀ", <<"\\u0243">>>>, <<"ƃ", <<"Ƃ">>>>,
     <<"ƅ", <<"Ƅ">>>>, <<"ƈ", <<"Ƈ">>>>, <<"ƌ", <<"Ƌ">>>>,
     <<"ƒ", <<"Ƒ">>>>, <<"ƕ", <<"Ƕ">>>>, <<"ƙ", <<"Ƙ">>>>,
     <<"ƚ", <<"\\u023D">>>>, <<"ƛ", <<"Ƛ">>>>, <<"ƞ", <<"\\u0220">>>>,
     <<"ơ", <<"Ơ">>>>, <<"ƣ", <<"Ƣ">>>>, <<"ƥ", <<"Ƥ">>>>,
     <<"ƨ", <<"Ƨ">>>>, <<"ƭ", <<"Ƭ">>>>, <<"ư", <<"Ư">>>>,
     <<"ƴ", <<"Ƴ">>>>, <<"ƶ", <<"Ƶ">>>>, <<"ƹ", <<"Ƹ">>>>,
     <<"ƽ", <<"Ƽ">>>>, <<"ƿ", <<"Ƿ">>>>, <<"ǅ", <<"Ǆ">>>>,
     <<"ǆ", <<"Ǆ">>>>, <<"ǈ", <<"Ǉ">>>>, <<"ǉ", <<"Ǉ">>>>,
     <<"ǋ", <<"Ǌ">>>>, <<"ǌ", <<"Ǌ">>>>, <<"ǎ", <<"Ǎ">>>>,
     <<"ǐ", <<"Ǐ">>>>, <<"ǒ", <<"Ǒ">>>>, <<"ǔ", <<"Ǔ">>>>,
     <<"ǖ", <<"Ǖ">>>>, <<"ǘ", <<"Ǘ">>>>, <<"ǚ", <<"Ǚ">>>>,
     <<"ǜ", <<"Ǜ">>>>, <<"ǝ", <<"Ǝ">>>>, <<"ǟ", <<"Ǟ">>>>,
     <<"ǡ", <<"Ǡ">>>>, <<"ǣ", <<"Ǣ">>>>, <<"ǥ", <<"Ǥ">>>>,
     <<"ǧ", <<"Ǧ">>>>, <<"ǩ", <<"Ǩ">>>>, <<"ǫ", <<"Ǫ">>>>,
     <<"ǭ", <<"Ǭ">>>>, <<"ǯ", <<"Ǯ">>>>, <<"ǰ", <<"J", "\\u030C">>>>,
     <<"ǲ", <<"Ǳ">>>>, <<"ǳ", <<"Ǳ">>>>, <<"ǵ", <<"Ǵ">>>>,
     <<"ǹ", <<"Ǹ">>>>, <<"ǻ", <<"Ǻ">>>>, <<"ǽ", <<"Ǽ">>>>,
     <<"ǿ", <<"Ǿ">>>>, <<"\\u0201", <<"\\u0200">>>>, <<"\\u0203", <<"\\u0202">>>>,
     <<"\\u0205", <<"\\u0204">>>>, <<"\\u0207", <<"\\u0206">>>>, <<"\\u0209", <<"\\u0208">>>>,
     <<"\\u020B", <<"\\u020A">>>>, <<"\\u020D", <<"\\u020C">>>>, <<"\\u020F", <<"\\u020E">>>>,
     <<"\\u0211", <<"\\u0210">>>>, <<"\\u0213", <<"\\u0212">>>>, <<"\\u0215", <<"\\u0214">>>>,
     <<"\\u0217", <<"\\u0216">>>>, <<"\\u0219", <<"\\u0218">>>>, <<"\\u021B", <<"\\u021A">>>>,
     <<"\\u021D", <<"\\u021C">>>>, <<"\\u021F", <<"\\u021E">>>>, <<"\\u0223", <<"\\u0222">>>>,
     <<"\\u0225", <<"\\u0224">>>>, <<"\\u0227", <<"\\u0226">>>>, <<"\\u0229", <<"\\u0228">>>>,
     <<"\\u022B", <<"\\u022A">>>>, <<"\\u022D", <<"\\u022C">>>>, <<"\\u022F", <<"\\u022E">>>>,
     <<"\\u0231", <<"\\u0230">>>>, <<"\\u0233", <<"\\u0232">>>>, <<"\\u023C", <<"\\u023B">>>>,
     <<"\\u023F", <<"\\u2C7E">>>>, <<"\\u0240", <<"\\u2C7F">>>>, <<"\\u0242", <<"\\u0241">>>>,
     <<"\\u0247", <<"\\u0246">>>>, <<"\\u0249", <<"\\u0248">>>>, <<"\\u024B", <<"\\u024A">>>>,
     <<"\\u024D", <<"\\u024C">>>>, <<"\\u024F", <<"\\u024E">>>>, <<"\\u0250", <<"\\u2C6F">>>>,
     <<"\\u0251", <<"\\u2C6D">>>>, <<"\\u0252", <<"\\u2C70">>>>, <<"\\u0253", <<"Ɓ">>>>,
     <<"\\u0254", <<"Ɔ">>>>, <<"\\u0256", <<"Ɖ">>>>, <<"\\u0257", <<"Ɗ">>>>,
     <<"\\u0259", <<"Ə">>>>, <<"\\u025B", <<"Ɛ">>>>, <<"\\u025C", <<"Ɜ">>>>,
     <<"\\u0260", <<"Ɠ">>>>, <<"\\u0261", <<"Ɡ">>>>, <<"\\u0263", <<"Ɣ">>>>,
     <<"\\u0264", <<"Ɤ">>>>, <<"\\u0265", <<"Ɥ">>>>, <<"\\u0266", <<"Ɦ">>>>,
     <<"\\u0268", <<"Ɨ">>>>, <<"\\u0269", <<"Ɩ">>>>, <<"\\u026A", <<"Ɪ">>>>,
     <<"\\u026B", <<"\\u2C62">>>>, <<"\\u026C", <<"Ɬ">>>>, <<"\\u026F", <<"Ɯ">>>>,
     <<"\\u0271", <<"\\u2C6E">>>>, <<"\\u0272", <<"Ɲ">>>>, <<"\\u0275", <<"Ɵ">>>>,
     <<"\\u027D", <<"\\u2C64">>>>, <<"ʀ", <<"Ʀ">>>>, <<"ʂ", <<"Ʂ">>>>,
     <<"ʃ", <<"Ʃ">>>>, <<"ʇ", <<"Ʇ">>>>, <<"ʈ", <<"Ʈ">>>>,
     <<"ʉ", <<"\\u0244">>>>, <<"ʊ", <<"Ʊ">>>>, <<"ʋ", <<"Ʋ">>>>,
     <<"ʌ", <<"\\u0245">>>>, <<"ʒ", <<"Ʒ">>>>, <<"ʝ", <<"Ʝ">>>>,
     <<"ʞ", <<"Ʞ">>>>, <<"\\u0345", <<"Ι">>>>, <<"\\u0371", <<"\\u0370">>>>,
     <<"\\u0373", <<"\\u0372">>>>, <<"\\u0377", <<"\\u0376">>>>, <<"\\u037B", <<"Ͻ">>>>,
     <<"\\u037C", <<"Ͼ">>>>, <<"\\u037D", <<"Ͽ">>>>, <<"ΐ", <<"Ι", "\\u0308", "\\u0301">>>>,
     <<"ά", <<"Ά">>>>, <<"έ", <<"Έ">>>>, <<"ή", <<"Ή">>>>,
     <<"ί", <<"Ί">>>>, <<"ΰ", <<"Υ", "\\u0308", "\\u0301">>>>, <<"α", <<"Α">>>>,
     <<"β", <<"Β">>>>, <<"γ", <<"Γ">>>>, <<"δ", <<"Δ">>>>,
     <<"ε", <<"Ε">>>>, <<"ζ", <<"Ζ">>>>, <<"η", <<"Η">>>>,
     <<"θ", <<"Θ">>>>, <<"ι", <<"Ι">>>>, <<"κ", <<"Κ">>>>,
     <<"λ", <<"Λ">>>>, <<"μ", <<"Μ">>>>, <<"ν", <<"Ν">>>>,
     <<"ξ", <<"Ξ">>>>, <<"ο", <<"Ο">>>>, <<"π", <<"Π">>>>,
     <<"ρ", <<"Ρ">>>>, <<"ς", <<"Σ">>>>, <<"σ", <<"Σ">>>>,
     <<"τ", <<"Τ">>>>, <<"υ", <<"Υ">>>>, <<"φ", <<"Φ">>>>,
     <<"χ", <<"Χ">>>>, <<"ψ", <<"Ψ">>>>, <<"ω", <<"Ω">>>>,
     <<"ϊ", <<"Ϊ">>>>, <<"ϋ", <<"Ϋ">>>>, <<"ό", <<"Ό">>>>,
     <<"ύ", <<"Ύ">>>>, <<"ώ", <<"Ώ">>>>, <<"ϐ", <<"Β">>>>,
     <<"ϑ", <<"Θ">>>>, <<"ϕ", <<"Φ">>>>, <<"ϖ", <<"Π">>>>,
     <<"ϗ", <<"Ϗ">>>>, <<"ϙ", <<"Ϙ">>>>, <<"ϛ", <<"Ϛ">>>>,
     <<"ϝ", <<"Ϝ">>>>, <<"ϟ", <<"Ϟ">>>>, <<"ϡ", <<"Ϡ">>>>,
     <<"ϣ", <<"Ϣ">>>>, <<"ϥ", <<"Ϥ">>>>, <<"ϧ", <<"Ϧ">>>>,
     <<"ϩ", <<"Ϩ">>>>, <<"ϫ", <<"Ϫ">>>>, <<"ϭ", <<"Ϭ">>>>,
     <<"ϯ", <<"Ϯ">>>>, <<"ϰ", <<"Κ">>>>, <<"ϱ", <<"Ρ">>>>,
     <<"ϲ", <<"Ϲ">>>>, <<"ϳ", <<"\\u037F">>>>, <<"ϵ", <<"Ε">>>>,
     <<"ϸ", <<"Ϸ">>>>, <<"ϻ", <<"Ϻ">>>>, <<"\\u0430", <<"\\u0410">>>>,
     <<"\\u0431", <<"\\u0411">>>>, <<"\\u0432", <<"\\u0412">>>>, <<"\\u0433", <<"\\u0413">>>>,
     <<"\\u0434", <<"\\u0414">>>>, <<"\\u0435", <<"\\u0415">>>>, <<"\\u0436", <<"\\u0416">>>>,
     <<"\\u0437", <<"\\u0417">>>>, <<"\\u0438", <<"\\u0418">>>>, <<"\\u0439", <<"\\u0419">>>>,
     <<"\\u043A", <<"\\u041A">>>>, <<"\\u043B", <<"\\u041B">>>>, <<"\\u043C", <<"\\u041C">>>>,
     <<"\\u043D", <<"\\u041D">>>>, <<"\\u043E", <<"\\u041E">>>>, <<"\\u043F", <<"\\u041F">>>>,
     <<"\\u0440", <<"\\u0420">>>>, <<"\\u0441", <<"\\u0421">>>>, <<"\\u0442", <<"\\u0422">>>>,
     <<"\\u0443", <<"\\u0423">>>>, <<"\\u0444", <<"\\u0424">>>>, <<"\\u0445", <<"\\u0425">>>>,
     <<"\\u0446", <<"\\u0426">>>>, <<"\\u0447", <<"\\u0427">>>>, <<"\\u0448", <<"\\u0428">>>>,
     <<"\\u0449", <<"\\u0429">>>>, <<"\\u044A", <<"\\u042A">>>>, <<"\\u044B", <<"\\u042B">>>>,
     <<"\\u044C", <<"\\u042C">>>>, <<"\\u044D", <<"\\u042D">>>>, <<"\\u044E", <<"\\u042E">>>>,
     <<"\\u044F", <<"\\u042F">>>>, <<"\\u0450", <<"\\u0400">>>>, <<"\\u0451", <<"\\u0401">>>>,
     <<"\\u0452", <<"\\u0402">>>>, <<"\\u0453", <<"\\u0403">>>>, <<"\\u0454", <<"\\u0404">>>>,
     <<"\\u0455", <<"\\u0405">>>>, <<"\\u0456", <<"\\u0406">>>>, <<"\\u0457", <<"\\u0407">>>>,
     <<"\\u0458", <<"\\u0408">>>>, <<"\\u0459", <<"\\u0409">>>>, <<"\\u045A", <<"\\u040A">>>>,
     <<"\\u045B", <<"\\u040B">>>>, <<"\\u045C", <<"\\u040C">>>>, <<"\\u045D", <<"\\u040D">>>>,
     <<"\\u045E", <<"\\u040E">>>>, <<"\\u045F", <<"\\u040F">>>>, <<"\\u0461", <<"\\u0460">>>>,
     <<"\\u0463", <<"\\u0462">>>>, <<"\\u0465", <<"\\u0464">>>>, <<"\\u0467", <<"\\u0466">>>>,
     <<"\\u0469", <<"\\u0468">>>>, <<"\\u046B", <<"\\u046A">>>>, <<"\\u046D", <<"\\u046C">>>>,
     <<"\\u046F", <<"\\u046E">>>>, <<"\\u0471", <<"\\u0470">>>>, <<"\\u0473", <<"\\u0472">>>>,
     <<"\\u0475", <<"\\u0474">>>>, <<"\\u0477", <<"\\u0476">>>>, <<"\\u0479", <<"\\u0478">>>>,
     <<"\\u047B", <<"\\u047A">>>>, <<"\\u047D", <<"\\u047C">>>>, <<"\\u047F", <<"\\u047E">>>>,
     <<"ҁ", <<"Ҁ">>>>, <<"ҋ", <<"Ҋ">>>>, <<"ҍ", <<"Ҍ">>>>,
     <<"ҏ", <<"Ҏ">>>>, <<"ґ", <<"Ґ">>>>, <<"ғ", <<"Ғ">>>>,
     <<"ҕ", <<"Ҕ">>>>, <<"җ", <<"Җ">>>>, <<"ҙ", <<"Ҙ">>>>,
     <<"қ", <<"Қ">>>>, <<"ҝ", <<"Ҝ">>>>, <<"ҟ", <<"Ҟ">>>>,
     <<"ҡ", <<"Ҡ">>>>, <<"ң", <<"Ң">>>>, <<"ҥ", <<"Ҥ">>>>,
     <<"ҧ", <<"Ҧ">>>>, <<"ҩ", <<"Ҩ">>>>, <<"ҫ", <<"Ҫ">>>>,
     <<"ҭ", <<"Ҭ">>>>, <<"ү", <<"Ү">>>>, <<"ұ", <<"Ұ">>>>,
     <<"ҳ", <<"Ҳ">>>>, <<"ҵ", <<"Ҵ">>>>, <<"ҷ", <<"Ҷ">>>>,
     <<"ҹ", <<"Ҹ">>>>, <<"һ", <<"Һ">>>>, <<"ҽ", <<"Ҽ">>>>,
     <<"ҿ", <<"Ҿ">>>>, <<"ӂ", <<"Ӂ">>>>, <<"ӄ", <<"Ӄ">>>>,
     <<"ӆ", <<"Ӆ">>>>, <<"ӈ", <<"Ӈ">>>>, <<"ӊ", <<"Ӊ">>>>,
     <<"ӌ", <<"Ӌ">>>>, <<"ӎ", <<"Ӎ">>>>, <<"ӏ", <<"Ӏ">>>>,
     <<"ӑ", <<"Ӑ">>>>, <<"ӓ", <<"Ӓ">>>>, <<"ӕ", <<"Ӕ">>>>,
     <<"ӗ", <<"Ӗ">>>>, <<"ә", <<"Ә">>>>, <<"ӛ", <<"Ӛ">>>>,
     <<"ӝ", <<"Ӝ">>>>, <<"ӟ", <<"Ӟ">>>>, <<"ӡ", <<"Ӡ">>>>,
     <<"ӣ", <<"Ӣ">>>>, <<"ӥ", <<"Ӥ">>>>, <<"ӧ", <<"Ӧ">>>>,
     <<"ө", <<"Ө">>>>, <<"ӫ", <<"Ӫ">>>>, <<"ӭ", <<"Ӭ">>>>,
     <<"ӯ", <<"Ӯ">>>>, <<"ӱ", <<"Ӱ">>>>, <<"ӳ", <<"Ӳ">>>>,
     <<"ӵ", <<"Ӵ">>>>, <<"ӷ", <<"Ӷ">>>>, <<"ӹ", <<"Ӹ">>>>,
     <<"ӻ", <<"Ӻ">>>>, <<"ӽ", <<"Ӽ">>>>, <<"ӿ", <<"Ӿ">>>>,
     <<"\\u0501", <<"\\u0500">>>>, <<"\\u0503", <<"\\u0502">>>>, <<"\\u0505", <<"\\u0504">>>>,
     <<"\\u0507", <<"\\u0506">>>>, <<"\\u0509", <<"\\u0508">>>>, <<"\\u050B", <<"\\u050A">>>>,
     <<"\\u050D", <<"\\u050C">>>>, <<"\\u050F", <<"\\u050E">>>>, <<"\\u0511", <<"\\u0510">>>>,
     <<"\\u0513", <<"\\u0512">>>>, <<"\\u0515", <<"\\u0514">>>>, <<"\\u0517", <<"\\u0516">>>>,
     <<"\\u0519", <<"\\u0518">>>>, <<"\\u051B", <<"\\u051A">>>>, <<"\\u051D", <<"\\u051C">>>>,
     <<"\\u051F", <<"\\u051E">>>>, <<"\\u0521", <<"\\u0520">>>>, <<"\\u0523", <<"\\u0522">>>>,
     <<"\\u0525", <<"\\u0524">>>>, <<"\\u0527", <<"\\u0526">>>>, <<"\\u0529", <<"\\u0528">>>>,
     <<"\\u052B", <<"\\u052A">>>>, <<"\\u052D", <<"\\u052C">>>>, <<"\\u052F", <<"\\u052E">>>>,
     <<"\\u0561", <<"\\u0531">>>>, <<"\\u0562", <<"\\u0532">>>>, <<"\\u0563", <<"\\u0533">>>>,
     <<"\\u0564", <<"\\u0534">>>>, <<"\\u0565", <<"\\u0535">>>>, <<"\\u0566", <<"\\u0536">>>>,
     <<"\\u0567", <<"\\u0537">>>>, <<"\\u0568", <<"\\u0538">>>>, <<"\\u0569", <<"\\u0539">>>>,
     <<"\\u056A", <<"\\u053A">>>>, <<"\\u056B", <<"\\u053B">>>>, <<"\\u056C", <<"\\u053C">>>>,
     <<"\\u056D", <<"\\u053D">>>>, <<"\\u056E", <<"\\u053E">>>>, <<"\\u056F", <<"\\u053F">>>>,
     <<"\\u0570", <<"\\u0540">>>>, <<"\\u0571", <<"\\u0541">>>>, <<"\\u0572", <<"\\u0542">>>>,
     <<"\\u0573", <<"\\u0543">>>>, <<"\\u0574", <<"\\u0544">>>>, <<"\\u0575", <<"\\u0545">>>>,
     <<"\\u0576", <<"\\u0546">>>>, <<"\\u0577", <<"\\u0547">>>>, <<"\\u0578", <<"\\u0548">>>>,
     <<"\\u0579", <<"\\u0549">>>>, <<"\\u057A", <<"\\u054A">>>>, <<"\\u057B", <<"\\u054B">>>>,
     <<"\\u057C", <<"\\u054C">>>>, <<"\\u057D", <<"\\u054D">>>>, <<"\\u057E", <<"\\u054E">>>>,
     <<"\\u057F", <<"\\u054F">>>>, <<"ր", <<"\\u0550">>>>, <<"ց", <<"\\u0551">>>>,
     <<"ւ", <<"\\u0552">>>>, <<"փ", <<"\\u0553">>>>, <<"ք", <<"\\u0554">>>>,
     <<"օ", <<"\\u0555">>>>, <<"ֆ", <<"\\u0556">>>>, <<"և", <<"\\u0535", "\\u0552">>>>,
     <<"ა", <<"Ა">>>>, <<"ბ", <<"Ბ">>>>, <<"გ", <<"Გ">>>>,
     <<"დ", <<"Დ">>>>, <<"ე", <<"Ე">>>>, <<"ვ", <<"Ვ">>>>,
     <<"ზ", <<"Ზ">>>>, <<"თ", <<"Თ">>>>, <<"ი", <<"Ი">>>>,
     <<"კ", <<"Კ">>>>, <<"ლ", <<"Ლ">>>>, <<"მ", <<"Მ">>>>,
     <<"ნ", <<"Ნ">>>>, <<"ო", <<"Ო">>>>, <<"პ", <<"Პ">>>>,
     <<"ჟ", <<"Ჟ">>>>, <<"რ", <<"Რ">>>>, <<"ს", <<"Ს">>>>,
     <<"ტ", <<"Ტ">>>>, <<"უ", <<"Უ">>>>, <<"ფ", <<"Ფ">>>>,
     <<"ქ", <<"Ქ">>>>, <<"ღ", <<"Ღ">>>>, <<"ყ", <<"Ყ">>>>,
     <<"შ", <<"Შ">>>>, <<"ჩ", <<"Ჩ">>>>, <<"ც", <<"Ც">>>>,
     <<"ძ", <<"Ძ">>>>, <<"წ", <<"Წ">>>>, <<"ჭ", <<"Ჭ">>>>,
     <<"ხ", <<"Ხ">>>>, <<"ჯ", <<"Ჯ">>>>, <<"ჰ", <<"Ჰ">>>>,
     <<"ჱ", <<"Ჱ">>>>, <<"ჲ", <<"Ჲ">>>>, <<"ჳ", <<"Ჳ">>>>,
     <<"ჴ", <<"Ჴ">>>>, <<"ჵ", <<"Ჵ">>>>, <<"ჶ", <<"Ჶ">>>>,
     <<"ჷ", <<"Ჷ">>>>, <<"ჸ", <<"Ჸ">>>>, <<"ჹ", <<"Ჹ">>>>,
     <<"ჺ", <<"Ჺ">>>>, <<"ჽ", <<"Ჽ">>>>, <<"ჾ", <<"Ჾ">>>>,
     <<"ჿ", <<"Ჿ">>>>, <<"ᏸ", <<"Ᏸ">>>>, <<"ᏹ", <<"Ᏹ">>>>,
     <<"ᏺ", <<"Ᏺ">>>>, <<"ᏻ", <<"Ᏻ">>>>, <<"ᏼ", <<"Ᏼ">>>>,
     <<"ᏽ", <<"Ᏽ">>>>, <<"ᲀ", <<"\\u0412">>>>, <<"ᲁ", <<"\\u0414">>>>,
     <<"ᲂ", <<"\\u041E">>>>, <<"ᲃ", <<"\\u0421">>>>, <<"ᲄ", <<"\\u0422">>>>,
     <<"ᲅ", <<"\\u0422">>>>, <<"ᲆ", <<"\\u042A">>>>, <<"ᲇ", <<"\\u0462">>>>,
     <<"ᲈ", <<"\\uA64A">>>>, <<"ᲊ", <<"Ᲊ">>>>, <<"\\u1D79", <<"\\uA77D">>>>,
     <<"\\u1D7D", <<"\\u2C63">>>>, <<"ᶎ", <<"Ᶎ">>>>, <<"\\u1E01", <<"\\u1E00">>>>,
     <<"\\u1E03", <<"\\u1E02">>>>, <<"\\u1E05", <<"\\u1E04">>>>, <<"\\u1E07", <<"\\u1E06">>>>,
     <<"\\u1E09", <<"\\u1E08">>>>, <<"\\u1E0B", <<"\\u1E0A">>>>, <<"\\u1E0D", <<"\\u1E0C">>>>,
     <<"\\u1E0F", <<"\\u1E0E">>>>, <<"\\u1E11", <<"\\u1E10">>>>, <<"\\u1E13", <<"\\u1E12">>>>,
     <<"\\u1E15", <<"\\u1E14">>>>, <<"\\u1E17", <<"\\u1E16">>>>, <<"\\u1E19", <<"\\u1E18">>>>,
     <<"\\u1E1B", <<"\\u1E1A">>>>, <<"\\u1E1D", <<"\\u1E1C">>>>, <<"\\u1E1F", <<"\\u1E1E">>>>,
     <<"\\u1E21", <<"\\u1E20">>>>, <<"\\u1E23", <<"\\u1E22">>>>, <<"\\u1E25", <<"\\u1E24">>>>,
     <<"\\u1E27", <<"\\u1E26">>>>, <<"\\u1E29", <<"\\u1E28">>>>, <<"\\u1E2B", <<"\\u1E2A">>>>,
     <<"\\u1E2D", <<"\\u1E2C">>>>, <<"\\u1E2F", <<"\\u1E2E">>>>, <<"\\u1E31", <<"\\u1E30">>>>,
     <<"\\u1E33", <<"\\u1E32">>>>, <<"\\u1E35", <<"\\u1E34">>>>, <<"\\u1E37", <<"\\u1E36">>>>,
     <<"\\u1E39", <<"\\u1E38">>>>, <<"\\u1E3B", <<"\\u1E3A">>>>, <<"\\u1E3D", <<"\\u1E3C">>>>,
     <<"\\u1E3F", <<"\\u1E3E">>>>, <<"\\u1E41", <<"\\u1E40">>>>, <<"\\u1E43", <<"\\u1E42">>>>,
     <<"\\u1E45", <<"\\u1E44">>>>, <<"\\u1E47", <<"\\u1E46">>>>, <<"\\u1E49", <<"\\u1E48">>>>,
     <<"\\u1E4B", <<"\\u1E4A">>>>, <<"\\u1E4D", <<"\\u1E4C">>>>, <<"\\u1E4F", <<"\\u1E4E">>>>,
     <<"\\u1E51", <<"\\u1E50">>>>, <<"\\u1E53", <<"\\u1E52">>>>, <<"\\u1E55", <<"\\u1E54">>>>,
     <<"\\u1E57", <<"\\u1E56">>>>, <<"\\u1E59", <<"\\u1E58">>>>, <<"\\u1E5B", <<"\\u1E5A">>>>,
     <<"\\u1E5D", <<"\\u1E5C">>>>, <<"\\u1E5F", <<"\\u1E5E">>>>, <<"\\u1E61", <<"\\u1E60">>>>,
     <<"\\u1E63", <<"\\u1E62">>>>, <<"\\u1E65", <<"\\u1E64">>>>, <<"\\u1E67", <<"\\u1E66">>>>,
     <<"\\u1E69", <<"\\u1E68">>>>, <<"\\u1E6B", <<"\\u1E6A">>>>, <<"\\u1E6D", <<"\\u1E6C">>>>,
     <<"\\u1E6F", <<"\\u1E6E">>>>, <<"\\u1E71", <<"\\u1E70">>>>, <<"\\u1E73", <<"\\u1E72">>>>,
     <<"\\u1E75", <<"\\u1E74">>>>, <<"\\u1E77", <<"\\u1E76">>>>, <<"\\u1E79", <<"\\u1E78">>>>,
     <<"\\u1E7B", <<"\\u1E7A">>>>, <<"\\u1E7D", <<"\\u1E7C">>>>, <<"\\u1E7F", <<"\\u1E7E">>>>,
     <<"ẁ", <<"Ẁ">>>>, <<"ẃ", <<"Ẃ">>>>, <<"ẅ", <<"Ẅ">>>>,
     <<"ẇ", <<"Ẇ">>>>, <<"ẉ", <<"Ẉ">>>>, <<"ẋ", <<"Ẋ">>>>,
     <<"ẍ", <<"Ẍ">>>>, <<"ẏ", <<"Ẏ">>>>, <<"ẑ", <<"Ẑ">>>>,
     <<"ẓ", <<"Ẓ">>>>, <<"ẕ", <<"Ẕ">>>>, <<"ẖ", <<"H", "\\u0331">>>>,
     <<"ẗ", <<"T", "\\u0308">>>>, <<"ẘ", <<"W", "\\u030A">>>>, <<"ẙ", <<"Y", "\\u030A">>>>,
     <<"ẚ", <<"A", "ʾ">>>>, <<"ẛ", <<"\\u1E60">>>>, <<"ạ", <<"Ạ">>>>,
     <<"ả", <<"Ả">>>>, <<"ấ", <<"Ấ">>>>, <<"ầ", <<"Ầ">>>>,
     <<"ẩ", <<"Ẩ">>>>, <<"ẫ", <<"Ẫ">>>>, <<"ậ", <<"Ậ">>>>,
     <<"ắ", <<"Ắ">>>>, <<"ằ", <<"Ằ">>>>, <<"ẳ", <<"Ẳ">>>>,
     <<"ẵ", <<"Ẵ">>>>, <<"ặ", <<"Ặ">>>>, <<"ẹ", <<"Ẹ">>>>,
     <<"ẻ", <<"Ẻ">>>>, <<"ẽ", <<"Ẽ">>>>, <<"ế", <<"Ế">>>>,
     <<"ề", <<"Ề">>>>, <<"ể", <<"Ể">>>>, <<"ễ", <<"Ễ">>>>,
     <<"ệ", <<"Ệ">>>>, <<"ỉ", <<"Ỉ">>>>, <<"ị", <<"Ị">>>>,
     <<"ọ", <<"Ọ">>>>, <<"ỏ", <<"Ỏ">>>>, <<"ố", <<"Ố">>>>,
     <<"ồ", <<"Ồ">>>>, <<"ổ", <<"Ổ">>>>, <<"ỗ", <<"Ỗ">>>>,
     <<"ộ", <<"Ộ">>>>, <<"ớ", <<"Ớ">>>>, <<"ờ", <<"Ờ">>>>,
     <<"ở", <<"Ở">>>>, <<"ỡ", <<"Ỡ">>>>, <<"ợ", <<"Ợ">>>>,
     <<"ụ", <<"Ụ">>>>, <<"ủ", <<"Ủ">>>>, <<"ứ", <<"Ứ">>>>,
     <<"ừ", <<"Ừ">>>>, <<"ử", <<"Ử">>>>, <<"ữ", <<"Ữ">>>>,
     <<"ự", <<"Ự">>>>, <<"ỳ", <<"Ỳ">>>>, <<"ỵ", <<"Ỵ">>>>,
     <<"ỷ", <<"Ỷ">>>>, <<"ỹ", <<"Ỹ">>>>, <<"ỻ", <<"Ỻ">>>>,
     <<"ỽ", <<"Ỽ">>>>, <<"ỿ", <<"Ỿ">>>>, <<"\\u1F00", <<"\\u1F08">>>>,
     <<"\\u1F01", <<"\\u1F09">>>>, <<"\\u1F02", <<"\\u1F0A">>>>, <<"\\u1F03", <<"\\u1F0B">>>>,
     <<"\\u1F04", <<"\\u1F0C">>>>, <<"\\u1F05", <<"\\u1F0D">>>>, <<"\\u1F06", <<"\\u1F0E">>>>,
     <<"\\u1F07", <<"\\u1F0F">>>>, <<"\\u1F10", <<"\\u1F18">>>>, <<"\\u1F11", <<"\\u1F19">>>>,
     <<"\\u1F12", <<"\\u1F1A">>>>, <<"\\u1F13", <<"\\u1F1B">>>>, <<"\\u1F14", <<"\\u1F1C">>>>,
     <<"\\u1F15", <<"\\u1F1D">>>>, <<"\\u1F20", <<"\\u1F28">>>>, <<"\\u1F21", <<"\\u1F29">>>>,
     <<"\\u1F22", <<"\\u1F2A">>>>, <<"\\u1F23", <<"\\u1F2B">>>>, <<"\\u1F24", <<"\\u1F2C">>>>,
     <<"\\u1F25", <<"\\u1F2D">>>>, <<"\\u1F26", <<"\\u1F2E">>>>, <<"\\u1F27", <<"\\u1F2F">>>>,
     <<"\\u1F30", <<"\\u1F38">>>>, <<"\\u1F31", <<"\\u1F39">>>>, <<"\\u1F32", <<"\\u1F3A">>>>,
     <<"\\u1F33", <<"\\u1F3B">>>>, <<"\\u1F34", <<"\\u1F3C">>>>, <<"\\u1F35", <<"\\u1F3D">>>>,
     <<"\\u1F36", <<"\\u1F3E">>>>, <<"\\u1F37", <<"\\u1F3F">>>>, <<"\\u1F40", <<"\\u1F48">>>>,
     <<"\\u1F41", <<"\\u1F49">>>>, <<"\\u1F42", <<"\\u1F4A">>>>, <<"\\u1F43", <<"\\u1F4B">>>>,
     <<"\\u1F44", <<"\\u1F4C">>>>, <<"\\u1F45", <<"\\u1F4D">>>>, <<"\\u1F50", <<"Υ", "\\u0313">>>>,
     <<"\\u1F51", <<"\\u1F59">>>>, <<"\\u1F52", <<"Υ", "\\u0313", "\\u0300">>>>, <<"\\u1F53", <<"\\u1F5B">>>>,
     <<"\\u1F54", <<"Υ", "\\u0313", "\\u0301">>>>, <<"\\u1F55", <<"\\u1F5D">>>>, <<"\\u1F56", <<"Υ", "\\u0313", "\\u0342">>>>,
     <<"\\u1F57", <<"\\u1F5F">>>>, <<"\\u1F60", <<"\\u1F68">>>>, <<"\\u1F61", <<"\\u1F69">>>>,
     <<"\\u1F62", <<"\\u1F6A">>>>, <<"\\u1F63", <<"\\u1F6B">>>>, <<"\\u1F64", <<"\\u1F6C">>>>,
     <<"\\u1F65", <<"\\u1F6D">>>>, <<"\\u1F66", <<"\\u1F6E">>>>, <<"\\u1F67", <<"\\u1F6F">>>>,
     <<"\\u1F70", <<"Ὰ">>>>, <<"\\u1F71", <<"Ά">>>>, <<"\\u1F72", <<"Ὲ">>>>,
     <<"\\u1F73", <<"Έ">>>>, <<"\\u1F74", <<"Ὴ">>>>, <<"\\u1F75", <<"Ή">>>>,
     <<"\\u1F76", <<"Ὶ">>>>, <<"\\u1F77", <<"Ί">>>>, <<"\\u1F78", <<"Ὸ">>>>,
     <<"\\u1F79", <<"Ό">>>>, <<"\\u1F7A", <<"Ὺ">>>>, <<"\\u1F7B", <<"Ύ">>>>,
     <<"\\u1F7C", <<"Ὼ">>>>, <<"\\u1F7D", <<"Ώ">>>>, <<"ᾀ", <<"\\u1F08", "Ι">>>>,
     <<"ᾁ", <<"\\u1F09", "Ι">>>>, <<"ᾂ", <<"\\u1F0A", "Ι">>>>, <<"ᾃ", <<"\\u1F0B", "Ι">>>>,
     <<"ᾄ", <<"\\u1F0C", "Ι">>>>, <<"ᾅ", <<"\\u1F0D", "Ι">>>>, <<"ᾆ", <<"\\u1F0E", "Ι">>>>,
     <<"ᾇ", <<"\\u1F0F", "Ι">>>>, <<"ᾈ", <<"\\u1F08", "Ι">>>>, <<"ᾉ", <<"\\u1F09", "Ι">>>>,
     <<"ᾊ", <<"\\u1F0A", "Ι">>>>, <<"ᾋ", <<"\\u1F0B", "Ι">>>>, <<"ᾌ", <<"\\u1F0C", "Ι">>>>,
     <<"ᾍ", <<"\\u1F0D", "Ι">>>>, <<"ᾎ", <<"\\u1F0E", "Ι">>>>, <<"ᾏ", <<"\\u1F0F", "Ι">>>>,
     <<"ᾐ", <<"\\u1F28", "Ι">>>>, <<"ᾑ", <<"\\u1F29", "Ι">>>>, <<"ᾒ", <<"\\u1F2A", "Ι">>>>,
     <<"ᾓ", <<"\\u1F2B", "Ι">>>>, <<"ᾔ", <<"\\u1F2C", "Ι">>>>, <<"ᾕ", <<"\\u1F2D", "Ι">>>>,
     <<"ᾖ", <<"\\u1F2E", "Ι">>>>, <<"ᾗ", <<"\\u1F2F", "Ι">>>>, <<"ᾘ", <<"\\u1F28", "Ι">>>>,
     <<"ᾙ", <<"\\u1F29", "Ι">>>>, <<"ᾚ", <<"\\u1F2A", "Ι">>>>, <<"ᾛ", <<"\\u1F2B", "Ι">>>>,
     <<"ᾜ", <<"\\u1F2C", "Ι">>>>, <<"ᾝ", <<"\\u1F2D", "Ι">>>>, <<"ᾞ", <<"\\u1F2E", "Ι">>>>,
     <<"ᾟ", <<"\\u1F2F", "Ι">>>>, <<"ᾠ", <<"\\u1F68", "Ι">>>>, <<"ᾡ", <<"\\u1F69", "Ι">>>>,
     <<"ᾢ", <<"\\u1F6A", "Ι">>>>, <<"ᾣ", <<"\\u1F6B", "Ι">>>>, <<"ᾤ", <<"\\u1F6C", "Ι">>>>,
     <<"ᾥ", <<"\\u1F6D", "Ι">>>>, <<"ᾦ", <<"\\u1F6E", "Ι">>>>, <<"ᾧ", <<"\\u1F6F", "Ι">>>>,
     <<"ᾨ", <<"\\u1F68", "Ι">>>>, <<"ᾩ", <<"\\u1F69", "Ι">>>>, <<"ᾪ", <<"\\u1F6A", "Ι">>>>,
     <<"ᾫ", <<"\\u1F6B", "Ι">>>>, <<"ᾬ", <<"\\u1F6C", "Ι">>>>, <<"ᾭ", <<"\\u1F6D", "Ι">>>>,
     <<"ᾮ", <<"\\u1F6E", "Ι">>>>, <<"ᾯ", <<"\\u1F6F", "Ι">>>>, <<"ᾰ", <<"Ᾰ">>>>,
     <<"ᾱ", <<"Ᾱ">>>>, <<"ᾲ", <<"Ὰ", "Ι">>>>, <<"ᾳ", <<"Α", "Ι">>>>,
     <<"ᾴ", <<"Ά", "Ι">>>>, <<"ᾶ", <<"Α", "\\u0342">>>>, <<"ᾷ", <<"Α", "\\u0342", "Ι">>>>,
     <<"ᾼ", <<"Α", "Ι">>>>, <<"ι", <<"Ι">>>>, <<"ῂ", <<"Ὴ", "Ι">>>>,
     <<"ῃ", <<"Η", "Ι">>>>, <<"ῄ", <<"Ή", "Ι">>>>, <<"ῆ", <<"Η", "\\u0342">>>>,
     <<"ῇ", <<"Η", "\\u0342", "Ι">>>>, <<"ῌ", <<"Η", "Ι">>>>, <<"ῐ", <<"Ῐ">>>>,
     <<"ῑ", <<"Ῑ">>>>, <<"ῒ", <<"Ι", "\\u0308", "\\u0300">>>>, <<"ΐ", <<"Ι", "\\u0308", "\\u0301">>>>,
     <<"ῖ", <<"Ι", "\\u0342">>>>, <<"ῗ", <<"Ι", "\\u0308", "\\u0342">>>>, <<"ῠ", <<"Ῠ">>>>,
     <<"ῡ", <<"Ῡ">>>>, <<"ῢ", <<"Υ", "\\u0308", "\\u0300">>>>, <<"ΰ", <<"Υ", "\\u0308", "\\u0301">>>>,
     <<"ῤ", <<"Ρ", "\\u0313">>>>, <<"ῥ", <<"Ῥ">>>>, <<"ῦ", <<"Υ", "\\u0342">>>>,
     <<"ῧ", <<"Υ", "\\u0308", "\\u0342">>>>, <<"ῲ", <<"Ὼ", "Ι">>>>, <<"ῳ", <<"Ω", "Ι">>>>,
     <<"ῴ", <<"Ώ", "Ι">>>>, <<"ῶ", <<"Ω", "\\u0342">>>>, <<"ῷ", <<"Ω", "\\u0342", "Ι">>>>,
     <<"ῼ", <<"Ω", "Ι">>>>, <<"\\u214E", <<"\\u2132">>>>, <<"\\u2170", <<"\\u2160">>>>,
     <<"\\u2171", <<"\\u2161">>>>, <<"\\u2172", <<"\\u2162">>>>, <<"\\u2173", <<"\\u2163">>>>,
     <<"\\u2174", <<"\\u2164">>>>, <<"\\u2175", <<"\\u2165">>>>, <<"\\u2176", <<"\\u2166">>>>,
     <<"\\u2177", <<"\\u2167">>>>, <<"\\u2178", <<"\\u2168">>>>, <<"\\u2179", <<"\\u2169">>>>,
     <<"\\u217A", <<"\\u216A">>>>, <<"\\u217B", <<"\\u216B">>>>, <<"\\u217C", <<"\\u216C">>>>,
     <<"\\u217D", <<"\\u216D">>>>, <<"\\u217E", <<"\\u216E">>>>, <<"\\u217F", <<"\\u216F">>>>,
     <<"ↄ", <<"Ↄ">>>>, <<"ⓐ", <<"Ⓐ">>>>, <<"ⓑ", <<"Ⓑ">>>>,
     <<"ⓒ", <<"Ⓒ">>>>, <<"ⓓ", <<"Ⓓ">>>>, <<"ⓔ", <<"Ⓔ">>>>,
     <<"ⓕ", <<"Ⓕ">>>>, <<"ⓖ", <<"Ⓖ">>>>, <<"ⓗ", <<"Ⓗ">>>>,
     <<"ⓘ", <<"Ⓘ">>>>, <<"ⓙ", <<"Ⓙ">>>>, <<"ⓚ", <<"Ⓚ">>>>,
     <<"ⓛ", <<"Ⓛ">>>>, <<"ⓜ", <<"Ⓜ">>>>, <<"ⓝ", <<"Ⓝ">>>>,
     <<"ⓞ", <<"Ⓞ">>>>, <<"ⓟ", <<"Ⓟ">>>>, <<"ⓠ", <<"Ⓠ">>>>,
     <<"ⓡ", <<"Ⓡ">>>>, <<"ⓢ", <<"Ⓢ">>>>, <<"ⓣ", <<"Ⓣ">>>>,
     <<"ⓤ", <<"Ⓤ">>>>, <<"ⓥ", <<"Ⓥ">>>>, <<"ⓦ", <<"Ⓦ">>>>,
     <<"ⓧ", <<"Ⓧ">>>>, <<"ⓨ", <<"Ⓨ">>>>, <<"ⓩ", <<"Ⓩ">>>>,
     <<"\\u2C30", <<"\\u2C00">>>>, <<"\\u2C31", <<"\\u2C01">>>>, <<"\\u2C32", <<"\\u2C02">>>>,
     <<"\\u2C33", <<"\\u2C03">>>>, <<"\\u2C34", <<"\\u2C04">>>>, <<"\\u2C35", <<"\\u2C05">>>>,
     <<"\\u2C36", <<"\\u2C06">>>>, <<"\\u2C37", <<"\\u2C07">>>>, <<"\\u2C38", <<"\\u2C08">>>>,
     <<"\\u2C39", <<"\\u2C09">>>>, <<"\\u2C3A", <<"\\u2C0A">>>>, <<"\\u2C3B", <<"\\u2C0B">>>>,
     <<"\\u2C3C", <<"\\u2C0C">>>>, <<"\\u2C3D", <<"\\u2C0D">>>>, <<"\\u2C3E", <<"\\u2C0E">>>>,
     <<"\\u2C3F", <<"\\u2C0F">>>>, <<"\\u2C40", <<"\\u2C10">>>>, <<"\\u2C41", <<"\\u2C11">>>>,
     <<"\\u2C42", <<"\\u2C12">>>>, <<"\\u2C43", <<"\\u2C13">>>>, <<"\\u2C44", <<"\\u2C14">>>>,
     <<"\\u2C45", <<"\\u2C15">>>>, <<"\\u2C46", <<"\\u2C16">>>>, <<"\\u2C47", <<"\\u2C17">>>>,
     <<"\\u2C48", <<"\\u2C18">>>>, <<"\\u2C49", <<"\\u2C19">>>>, <<"\\u2C4A", <<"\\u2C1A">>>>,
     <<"\\u2C4B", <<"\\u2C1B">>>>, <<"\\u2C4C", <<"\\u2C1C">>>>, <<"\\u2C4D", <<"\\u2C1D">>>>,
     <<"\\u2C4E", <<"\\u2C1E">>>>, <<"\\u2C4F", <<"\\u2C1F">>>>, <<"\\u2C50", <<"\\u2C20">>>>,
     <<"\\u2C51", <<"\\u2C21">>>>, <<"\\u2C52", <<"\\u2C22">>>>, <<"\\u2C53", <<"\\u2C23">>>>,
     <<"\\u2C54", <<"\\u2C24">>>>, <<"\\u2C55", <<"\\u2C25">>>>, <<"\\u2C56", <<"\\u2C26">>>>,
     <<"\\u2C57", <<"\\u2C27">>>>, <<"\\u2C58", <<"\\u2C28">>>>, <<"\\u2C59", <<"\\u2C29">>>>,
     <<"\\u2C5A", <<"\\u2C2A">>>>, <<"\\u2C5B", <<"\\u2C2B">>>>, <<"\\u2C5C", <<"\\u2C2C">>>>,
     <<"\\u2C5D", <<"\\u2C2D">>>>, <<"\\u2C5E", <<"\\u2C2E">>>>, <<"\\u2C5F", <<"\\u2C2F">>>>,
     <<"\\u2C61", <<"\\u2C60">>>>, <<"\\u2C65", <<"\\u023A">>>>, <<"\\u2C66", <<"\\u023E">>>>,
     <<"\\u2C68", <<"\\u2C67">>>>, <<"\\u2C6A", <<"\\u2C69">>>>, <<"\\u2C6C", <<"\\u2C6B">>>>,
     <<"\\u2C73", <<"\\u2C72">>>>, <<"\\u2C76", <<"\\u2C75">>>>, <<"ⲁ", <<"Ⲁ">>>>,
     <<"ⲃ", <<"Ⲃ">>>>, <<"ⲅ", <<"Ⲅ">>>>, <<"ⲇ", <<"Ⲇ">>>>,
     <<"ⲉ", <<"Ⲉ">>>>, <<"ⲋ", <<"Ⲋ">>>>, <<"ⲍ", <<"Ⲍ">>>>,
     <<"ⲏ", <<"Ⲏ">>>>, <<"ⲑ", <<"Ⲑ">>>>, <<"ⲓ", <<"Ⲓ">>>>,
     <<"ⲕ", <<"Ⲕ">>>>, <<"ⲗ", <<"Ⲗ">>>>, <<"ⲙ", <<"Ⲙ">>>>,
     <<"ⲛ", <<"Ⲛ">>>>, <<"ⲝ", <<"Ⲝ">>>>, <<"ⲟ", <<"Ⲟ">>>>,
     <<"ⲡ", <<"Ⲡ">>>>, <<"ⲣ", <<"Ⲣ">>>>, <<"ⲥ", <<"Ⲥ">>>>,
     <<"ⲧ", <<"Ⲧ">>>>, <<"ⲩ", <<"Ⲩ">>>>, <<"ⲫ", <<"Ⲫ">>>>,
     <<"ⲭ", <<"Ⲭ">>>>, <<"ⲯ", <<"Ⲯ">>>>, <<"ⲱ", <<"Ⲱ">>>>,
     <<"ⲳ", <<"Ⲳ">>>>, <<"ⲵ", <<"Ⲵ">>>>, <<"ⲷ", <<"Ⲷ">>>>,
     <<"ⲹ", <<"Ⲹ">>>>, <<"ⲻ", <<"Ⲻ">>>>, <<"ⲽ", <<"Ⲽ">>>>,
     <<"ⲿ", <<"Ⲿ">>>>, <<"ⳁ", <<"Ⳁ">>>>, <<"ⳃ", <<"Ⳃ">>>>,
     <<"ⳅ", <<"Ⳅ">>>>, <<"ⳇ", <<"Ⳇ">>>>, <<"ⳉ", <<"Ⳉ">>>>,
     <<"ⳋ", <<"Ⳋ">>>>, <<"ⳍ", <<"Ⳍ">>>>, <<"ⳏ", <<"Ⳏ">>>>,
     <<"ⳑ", <<"Ⳑ">>>>, <<"ⳓ", <<"Ⳓ">>>>, <<"ⳕ", <<"Ⳕ">>>>,
     <<"ⳗ", <<"Ⳗ">>>>, <<"ⳙ", <<"Ⳙ">>>>, <<"ⳛ", <<"Ⳛ">>>>,
     <<"ⳝ", <<"Ⳝ">>>>, <<"ⳟ", <<"Ⳟ">>>>, <<"ⳡ", <<"Ⳡ">>>>,
     <<"ⳣ", <<"Ⳣ">>>>, <<"ⳬ", <<"Ⳬ">>>>, <<"ⳮ", <<"Ⳮ">>>>,
     <<"ⳳ", <<"Ⳳ">>>>, <<"\\u2D00", <<"Ⴀ">>>>, <<"\\u2D01", <<"Ⴁ">>>>,
     <<"\\u2D02", <<"Ⴂ">>>>, <<"\\u2D03", <<"Ⴃ">>>>, <<"\\u2D04", <<"Ⴄ">>>>,
     <<"\\u2D05", <<"Ⴅ">>>>, <<"\\u2D06", <<"Ⴆ">>>>, <<"\\u2D07", <<"Ⴇ">>>>,
     <<"\\u2D08", <<"Ⴈ">>>>, <<"\\u2D09", <<"Ⴉ">>>>, <<"\\u2D0A", <<"Ⴊ">>>>,
     <<"\\u2D0B", <<"Ⴋ">>>>, <<"\\u2D0C", <<"Ⴌ">>>>, <<"\\u2D0D", <<"Ⴍ">>>>,
     <<"\\u2D0E", <<"Ⴎ">>>>, <<"\\u2D0F", <<"Ⴏ">>>>, <<"\\u2D10", <<"Ⴐ">>>>,
     <<"\\u2D11", <<"Ⴑ">>>>, <<"\\u2D12", <<"Ⴒ">>>>, <<"\\u2D13", <<"Ⴓ">>>>,
     <<"\\u2D14", <<"Ⴔ">>>>, <<"\\u2D15", <<"Ⴕ">>>>, <<"\\u2D16", <<"Ⴖ">>>>,
     <<"\\u2D17", <<"Ⴗ">>>>, <<"\\u2D18", <<"Ⴘ">>>>, <<"\\u2D19", <<"Ⴙ">>>>,
     <<"\\u2D1A", <<"Ⴚ">>>>, <<"\\u2D1B", <<"Ⴛ">>>>, <<"\\u2D1C", <<"Ⴜ">>>>,
     <<"\\u2D1D", <<"Ⴝ">>>>, <<"\\u2D1E", <<"Ⴞ">>>>, <<"\\u2D1F", <<"Ⴟ">>>>,
     <<"\\u2D20", <<"Ⴠ">>>>, <<"\\u2D21", <<"Ⴡ">>>>, <<"\\u2D22", <<"Ⴢ">>>>,
     <<"\\u2D23", <<"Ⴣ">>>>, <<"\\u2D24", <<"Ⴤ">>>>, <<"\\u2D25", <<"Ⴥ">>>>,
     <<"\\u2D27", <<"Ⴧ">>>>, <<"\\u2D2D", <<"Ⴭ">>>>, <<"\\uA641", <<"\\uA640">>>>,
     <<"\\uA643", <<"\\uA642">>>>, <<"\\uA645", <<"\\uA644">>>>, <<"\\uA647", <<"\\uA646">>>>,
     <<"\\uA649", <<"\\uA648">>>>, <<"\\uA64B", <<"\\uA64A">>>>, <<"\\uA64D", <<"\\uA64C">>>>,
     <<"\\uA64F", <<"\\uA64E">>>>, <<"\\uA651", <<"\\uA650">>>>, <<"\\uA653", <<"\\uA652">>>>,
     <<"\\uA655", <<"\\uA654">>>>, <<"\\uA657", <<"\\uA656">>>>, <<"\\uA659", <<"\\uA658">>>>,
     <<"\\uA65B", <<"\\uA65A">>>>, <<"\\uA65D", <<"\\uA65C">>>>, <<"\\uA65F", <<"\\uA65E">>>>,
     <<"\\uA661", <<"\\uA660">>>>, <<"\\uA663", <<"\\uA662">>>>, <<"\\uA665", <<"\\uA664">>>>,
     <<"\\uA667", <<"\\uA666">>>>, <<"\\uA669", <<"\\uA668">>>>, <<"\\uA66B", <<"\\uA66A">>>>,
     <<"\\uA66D", <<"\\uA66C">>>>, <<"ꚁ", <<"Ꚁ">>>>, <<"ꚃ", <<"Ꚃ">>>>,
     <<"ꚅ", <<"Ꚅ">>>>, <<"ꚇ", <<"Ꚇ">>>>, <<"ꚉ", <<"Ꚉ">>>>,
     <<"ꚋ", <<"Ꚋ">>>>, <<"ꚍ", <<"Ꚍ">>>>, <<"ꚏ", <<"Ꚏ">>>>,
     <<"ꚑ", <<"Ꚑ">>>>, <<"ꚓ", <<"Ꚓ">>>>, <<"ꚕ", <<"Ꚕ">>>>,
     <<"ꚗ", <<"Ꚗ">>>>, <<"ꚙ", <<"Ꚙ">>>>, <<"ꚛ", <<"Ꚛ">>>>,
     <<"\\uA723", <<"\\uA722">>>>, <<"\\uA725", <<"\\uA724">>>>, <<"\\uA727", <<"\\uA726">>>>,
     <<"\\uA729", <<"\\uA728">>>>, <<"\\uA72B", <<"\\uA72A">>>>, <<"\\uA72D", <<"\\uA72C">>>>,
     <<"\\uA72F", <<"\\uA72E">>>>, <<"\\uA733", <<"\\uA732">>>>, <<"\\uA735", <<"\\uA734">>>>,
     <<"\\uA737", <<"\\uA736">>>>, <<"\\uA739", <<"\\uA738">>>>, <<"\\uA73B", <<"\\uA73A">>>>,
     <<"\\uA73D", <<"\\uA73C">>>>, <<"\\uA73F", <<"\\uA73E">>>>, <<"\\uA741", <<"\\uA740">>>>,
     <<"\\uA743", <<"\\uA742">>>>, <<"\\uA745", <<"\\uA744">>>>, <<"\\uA747", <<"\\uA746">>>>,
     <<"\\uA749", <<"\\uA748">>>>, <<"\\uA74B", <<"\\uA74A">>>>, <<"\\uA74D", <<"\\uA74C">>>>,
     <<"\\uA74F", <<"\\uA74E">>>>, <<"\\uA751", <<"\\uA750">>>>, <<"\\uA753", <<"\\uA752">>>>,
     <<"\\uA755", <<"\\uA754">>>>, <<"\\uA757", <<"\\uA756">>>>, <<"\\uA759", <<"\\uA758">>>>,
     <<"\\uA75B", <<"\\uA75A">>>>, <<"\\uA75D", <<"\\uA75C">>>>, <<"\\uA75F", <<"\\uA75E">>>>,
     <<"\\uA761", <<"\\uA760">>>>, <<"\\uA763", <<"\\uA762">>>>, <<"\\uA765", <<"\\uA764">>>>,
     <<"\\uA767", <<"\\uA766">>>>, <<"\\uA769", <<"\\uA768">>>>, <<"\\uA76B", <<"\\uA76A">>>>,
     <<"\\uA76D", <<"\\uA76C">>>>, <<"\\uA76F", <<"\\uA76E">>>>, <<"\\uA77A", <<"\\uA779">>>>,
     <<"\\uA77C", <<"\\uA77B">>>>, <<"\\uA77F", <<"\\uA77E">>>>, <<"ꞁ", <<"Ꞁ">>>>,
     <<"ꞃ", <<"Ꞃ">>>>, <<"ꞅ", <<"Ꞅ">>>>, <<"ꞇ", <<"Ꞇ">>>>,
     <<"ꞌ", <<"Ꞌ">>>>, <<"ꞑ", <<"Ꞑ">>>>, <<"ꞓ", <<"Ꞓ">>>>,
     <<"ꞔ", <<"Ꞔ">>>>, <<"ꞗ", <<"Ꞗ">>>>, <<"ꞙ", <<"Ꞙ">>>>,
     <<"ꞛ", <<"Ꞛ">>>>, <<"ꞝ", <<"Ꞝ">>>>, <<"ꞟ", <<"Ꞟ">>>>,
     <<"ꞡ", <<"Ꞡ">>>>, <<"ꞣ", <<"Ꞣ">>>>, <<"ꞥ", <<"Ꞥ">>>>,
     <<"ꞧ", <<"Ꞧ">>>>, <<"ꞩ", <<"Ꞩ">>>>, <<"ꞵ", <<"Ꞵ">>>>,
     <<"ꞷ", <<"Ꞷ">>>>, <<"ꞹ", <<"Ꞹ">>>>, <<"ꞻ", <<"Ꞻ">>>>,
     <<"ꞽ", <<"Ꞽ">>>>, <<"ꞿ", <<"Ꞿ">>>>, <<"ꟁ", <<"Ꟁ">>>>,
     <<"ꟃ", <<"Ꟃ">>>>, <<"ꟈ", <<"Ꟈ">>>>, <<"ꟊ", <<"Ꟊ">>>>,
     <<"ꟍ", <<"Ꟍ">>>>, <<"꟏", <<"꟎">>>>, <<"ꟑ", <<"Ꟑ">>>>,
     <<"ꟓ", <<"꟒">>>>, <<"ꟕ", <<"꟔">>>>, <<"ꟗ", <<"Ꟗ">>>>,
     <<"ꟙ", <<"Ꟙ">>>>, <<"ꟛ", <<"Ꟛ">>>>, <<"ꟶ", <<"Ꟶ">>>>,
     <<"\\uAB53", <<"Ꭓ">>>>, <<"\\uAB70", <<"Ꭰ">>>>, <<"\\uAB71", <<"Ꭱ">>>>,
     <<"\\uAB72", <<"Ꭲ">>>>, <<"\\uAB73", <<"Ꭳ">>>>, <<"\\uAB74", <<"Ꭴ">>>>,
     <<"\\uAB75", <<"Ꭵ">>>>, <<"\\uAB76", <<"Ꭶ">>>>, <<"\\uAB77", <<"Ꭷ">>>>,
     <<"\\uAB78", <<"Ꭸ">>>>, <<"\\uAB79", <<"Ꭹ">>>>, <<"\\uAB7A", <<"Ꭺ">>>>,
     <<"\\uAB7B", <<"Ꭻ">>>>, <<"\\uAB7C", <<"Ꭼ">>>>, <<"\\uAB7D", <<"Ꭽ">>>>,
     <<"\\uAB7E", <<"Ꭾ">>>>, <<"\\uAB7F", <<"Ꭿ">>>>, <<"ꮀ", <<"Ꮀ">>>>,
     <<"ꮁ", <<"Ꮁ">>>>, <<"ꮂ", <<"Ꮂ">>>>, <<"ꮃ", <<"Ꮃ">>>>,
     <<"ꮄ", <<"Ꮄ">>>>, <<"ꮅ", <<"Ꮅ">>>>, <<"ꮆ", <<"Ꮆ">>>>,
     <<"ꮇ", <<"Ꮇ">>>>, <<"ꮈ", <<"Ꮈ">>>>, <<"ꮉ", <<"Ꮉ">>>>,
     <<"ꮊ", <<"Ꮊ">>>>, <<"ꮋ", <<"Ꮋ">>>>, <<"ꮌ", <<"Ꮌ">>>>,
     <<"ꮍ", <<"Ꮍ">>>>, <<"ꮎ", <<"Ꮎ">>>>, <<"ꮏ", <<"Ꮏ">>>>,
     <<"ꮐ", <<"Ꮐ">>>>, <<"ꮑ", <<"Ꮑ">>>>, <<"ꮒ", <<"Ꮒ">>>>,
     <<"ꮓ", <<"Ꮓ">>>>, <<"ꮔ", <<"Ꮔ">>>>, <<"ꮕ", <<"Ꮕ">>>>,
     <<"ꮖ", <<"Ꮖ">>>>, <<"ꮗ", <<"Ꮗ">>>>, <<"ꮘ", <<"Ꮘ">>>>,
     <<"ꮙ", <<"Ꮙ">>>>, <<"ꮚ", <<"Ꮚ">>>>, <<"ꮛ", <<"Ꮛ">>>>,
     <<"ꮜ", <<"Ꮜ">>>>, <<"ꮝ", <<"Ꮝ">>>>, <<"ꮞ", <<"Ꮞ">>>>,
     <<"ꮟ", <<"Ꮟ">>>>, <<"ꮠ", <<"Ꮠ">>>>, <<"ꮡ", <<"Ꮡ">>>>,
     <<"ꮢ", <<"Ꮢ">>>>, <<"ꮣ", <<"Ꮣ">>>>, <<"ꮤ", <<"Ꮤ">>>>,
     <<"ꮥ", <<"Ꮥ">>>>, <<"ꮦ", <<"Ꮦ">>>>, <<"ꮧ", <<"Ꮧ">>>>,
     <<"ꮨ", <<"Ꮨ">>>>, <<"ꮩ", <<"Ꮩ">>>>, <<"ꮪ", <<"Ꮪ">>>>,
     <<"ꮫ", <<"Ꮫ">>>>, <<"ꮬ", <<"Ꮬ">>>>, <<"ꮭ", <<"Ꮭ">>>>,
     <<"ꮮ", <<"Ꮮ">>>>, <<"ꮯ", <<"Ꮯ">>>>, <<"ꮰ", <<"Ꮰ">>>>,
     <<"ꮱ", <<"Ꮱ">>>>, <<"ꮲ", <<"Ꮲ">>>>, <<"ꮳ", <<"Ꮳ">>>>,
     <<"ꮴ", <<"Ꮴ">>>>, <<"ꮵ", <<"Ꮵ">>>>, <<"ꮶ", <<"Ꮶ">>>>,
     <<"ꮷ", <<"Ꮷ">>>>, <<"ꮸ", <<"Ꮸ">>>>, <<"ꮹ", <<"Ꮹ">>>>,
     <<"ꮺ", <<"Ꮺ">>>>, <<"ꮻ", <<"Ꮻ">>>>, <<"ꮼ", <<"Ꮼ">>>>,
     <<"ꮽ", <<"Ꮽ">>>>, <<"ꮾ", <<"Ꮾ">>>>, <<"ꮿ", <<"Ꮿ">>>>,
     <<"\\uFB00", <<"F", "F">>>>, <<"\\uFB01", <<"F", "I">>>>, <<"\\uFB02", <<"F", "L">>>>,
     <<"\\uFB03", <<"F", "F", "I">>>>, <<"\\uFB04", <<"F", "F", "L">>>>, <<"\\uFB05", <<"S", "T">>>>,
     <<"\\uFB06", <<"S", "T">>>>, <<"\\uFB13", <<"\\u0544", "\\u0546">>>>, <<"\\uFB14", <<"\\u0544", "\\u0535">>>>,
     <<"\\uFB15", <<"\\u0544", "\\u053B">>>>, <<"\\uFB16", <<"\\u054E", "\\u0546">>>>, <<"\\uFB17", <<"\\u0544", "\\u053D">>>>,
     <<"\\uFF41", <<"\\uFF21">>>>, <<"\\uFF42", <<"\\uFF22">>>>, <<"\\uFF43", <<"\\uFF23">>>>,
     <<"\\uFF44", <<"\\uFF24">>>>, <<"\\uFF45", <<"\\uFF25">>>>, <<"\\uFF46", <<"\\uFF26">>>>,
     <<"\\uFF47", <<"\\uFF27">>>>, <<"\\uFF48", <<"\\uFF28">>>>, <<"\\uFF49", <<"\\uFF29">>>>,
     <<"\\uFF4A", <<"\\uFF2A">>>>, <<"\\uFF4B", <<"\\uFF2B">>>>, <<"\\uFF4C", <<"\\uFF2C">>>>,
     <<"\\uFF4D", <<"\\uFF2D">>>>, <<"\\uFF4E", <<"\\uFF2E">>>>, <<"\\uFF4F", <<"\\uFF2F">>>>,
     <<"\\uFF50", <<"\\uFF30">>>>, <<"\\uFF51", <<"\\uFF31">>>>, <<"\\uFF52", <<"\\uFF32">>>>,
     <<"\\uFF53", <<"\\uFF33">>>>, <<"\\uFF54", <<"\\uFF34">>>>, <<"\\uFF55", <<"\\uFF35">>>>,
     <<"\\uFF56", <<"\\uFF36">>>>, <<"\\uFF57", <<"\\uFF37">>>>, <<"\\uFF58", <<"\\uFF38">>>>,
     <<"\\uFF59", <<"\\uFF39">>>>, <<"\\uFF5A", <<"\\uFF3A">>>>
  >>

\* the code units of UnicodeUpper
UnicodeLower == {UnicodeUpper[k][1] : k \in 1..Len(UnicodeUpper)}

\* The cased letters outside the Basic Multilingual Plane (Deseret, Osage,
\* Vithkuqi, Old Hungarian, Garay, Warang Citi, Medefaidrin, Beria Erfe,
\* Adlam): the surrogate pair of each with the pair of its upper case
AstralUpper ==
  <<
     <<<<"\\uD801", "\\uDC28">>, <<"\\uD801", "\\uDC00">>>>, <<<<"\\uD801", "\\uDC29">>, <<"\\uD801", "\\uDC01">>>>,
     <<<<"\\uD801", "\\uDC2A">>, <<"\\uD801", "\\uDC02">>>>, <<<<"\\uD801", "\\uDC2B">>, <<"\\uD801", "\\uDC03">>>>,
     <<<<"\\uD801", "\\uDC2C">>, <<"\\uD801", "\\uDC04">>>>, <<<<"\\uD801", "\\uDC2D">>, <<"\\uD801", "\\uDC05">>>>,
     <<<<"\\uD801", "\\uDC2E">>, <<"\\uD801", "\\uDC06">>>>, <<<<"\\uD801", "\\uDC2F">>, <<"\\uD801", "\\uDC07">>>>,
     <<<<"\\uD801", "\\uDC30">>, <<"\\uD801", "\\uDC08">>>>, <<<<"\\uD801", "\\uDC31">>, <<"\\uD801", "\\uDC09">>>>,
     <<<<"\\uD801", "\\uDC32">>, <<"\\uD801", "\\uDC0A">>>>, <<<<"\\uD801", "\\uDC33">>, <<"\\uD801", "\\uDC0B">>>>,
     <<<<"\\uD801", "\\uDC34">>, <<"\\uD801", "\\uDC0C">>>>, <<<<"\\uD801", "\\uDC35">>, <<"\\uD801", "\\uDC0D">>>>,
     <<<<"\\uD801", "\\uDC36">>, <<"\\uD801", "\\uDC0E">>>>, <<<<"\\uD801", "\\uDC37">>, <<"\\uD801", "\\uDC0F">>>>,
     <<<<"\\uD801", "\\uDC38">>, <<"\\uD801", "\\uDC10">>>>, <<<<"\\uD801", "\\uDC39">>, <<"\\uD801", "\\uDC11">>>>,
     <<<<"\\uD801", "\\uDC3A">>, <<"\\uD801", "\\uDC12">>>>, <<<<"\\uD801", "\\uDC3B">>, <<"\\uD801", "\\uDC13">>>>,
     <<<<"\\uD801", "\\uDC3C">>, <<"\\uD801", "\\uDC14">>>>, <<<<"\\uD801", "\\uDC3D">>, <<"\\uD801", "\\uDC15">>>>,
     <<<<"\\uD801", "\\uDC3E">>, <<"\\uD801", "\\uDC16">>>>, <<<<"\\uD801", "\\uDC3F">>, <<"\\uD801", "\\uDC17">>>>,
     <<<<"\\uD801", "\\uDC40">>, <<"\\uD801", "\\uDC18">>>>, <<<<"\\uD801", "\\uDC41">>, <<"\\uD801", "\\uDC19">>>>,
     <<<<"\\uD801", "\\uDC42">>, <<"\\uD801", "\\uDC1A">>>>, <<<<"\\uD801", "\\uDC43">>, <<"\\uD801", "\\uDC1B">>>>,
     <<<<"\\uD801", "\\uDC44">>, <<"\\uD801", "\\uDC1C">>>>, <<<<"\\uD801", "\\uDC45">>, <<"\\uD801", "\\uDC1D">>>>,
     <<<<"\\uD801", "\\uDC46">>, <<"\\uD801", "\\uDC1E">>>>, <<<<"\\uD801", "\\uDC47">>, <<"\\uD801", "\\uDC1F">>>>,
     <<<<"\\uD801", "\\uDC48">>, <<"\\uD801", "\\uDC20">>>>, <<<<"\\uD801", "\\uDC49">>, <<"\\uD801", "\\uDC21">>>>,
     <<<<"\\uD801", "\\uDC4A">>, <<"\\uD801", "\\uDC22">>>>, <<<<"\\uD801", "\\uDC4B">>, <<"\\uD801", "\\uDC23">>>>,
     <<<<"\\uD801", "\\uDC4C">>, <<"\\uD801", "\\uDC24">>>>, <<<<"\\uD801", "\\uDC4D">>, <<"\\uD801", "\\uDC25">>>>,
     <<<<"\\uD801", "\\uDC4E">>, <<"\\uD801", "\\uDC26">>>>, <<<<"\\uD801", "\\uDC4F">>, <<"\\uD801", "\\uDC27">>>>,
     <<<<"\\uD801", "\\uDCD8">>, <<"\\uD801", "\\uDCB0">>>>, <<<<"\\uD801", "\\uDCD9">>, <<"\\uD801", "\\uDCB1">>>>,
     <<<<"\\uD801", "\\uDCDA">>, <<"\\uD801", "\\uDCB2">>>>, <<<<"\\uD801", "\\uDCDB">>, <<"\\uD801", "\\uDCB3">>>>,
     <<<<"\\uD801", "\\uDCDC">>, <<"\\uD801", "\\uDCB4">>>>, <<<<"\\uD801", "\\uDCDD">>, <<"\\uD801", "\\uDCB5">>>>,
     <<<<"\\uD801", "\\uDCDE">>, <<"\\uD801", "\\uDCB6">>>>, <<<<"\\uD801", "\\uDCDF">>, <<"\\uD801", "\\uDCB7">>>>,
     <<<<"\\uD801", "\\uDCE0">>, <<"\\uD801", "\\uDCB8">>>>, <<<<"\\uD801", "\\uDCE1">>, <<"\\uD801", "\\uDCB9">>>>,
     <<<<"\\uD801", "\\uDCE2">>, <<"\\uD801", "\\uDCBA">>>>, <<<<"\\uD801", "\\uDCE3">>, <<"\\uD801", "\\uDCBB">>>>,
     <<<<"\\uD801", "\\uDCE4">>, <<"\\uD801", "\\uDCBC">>>>, <<<<"\\uD801", "\\uDCE5">>, <<"\\uD801", "\\uDCBD">>>>,
     <<<<"\\uD801", "\\uDCE6">>, <<"\\uD801", "\\uDCBE">>>>, <<<<"\\uD801", "\\uDCE7">>, <<"\\uD801", "\\uDCBF">>>>,
     <<<<"\\uD801", "\\uDCE8">>, <<"\\uD801", "\\uDCC0">>>>, <<<<"\\uD801", "\\uDCE9">>, <<"\\uD801", "\\uDCC1">>>>,
     <<<<"\\uD801", "\\uDCEA">>, <<"\\uD801", "\\uDCC2">>>>, <<<<"\\uD801", "\\uDCEB">>, <<"\\uD801", "\\uDCC3">>>>,
     <<<<"\\uD801", "\\uDCEC">>, <<"\\uD801", "\\uDCC4">>>>, <<<<"\\uD801", "\\uDCED">>, <<"\\uD801", "\\uDCC5">>>>,
     <<<<"\\uD801", "\\uDCEE">>, <<"\\uD801", "\\uDCC6">>>>, <<<<"\\uD801", "\\uDCEF">>, <<"\\uD801", "\\uDCC7">>>>,
     <<<<"\\uD801", "\\uDCF0">>, <<"\\uD801", "\\uDCC8">>>>, <<<<"\\uD801", "\\uDCF1">>, <<"\\uD801", "\\uDCC9">>>>,
     <<<<"\\uD801", "\\uDCF2">>, <<"\\uD801", "\\uDCCA">>>>, <<<<"\\uD801", "\\uDCF3">>, <<"\\uD801", "\\uDCCB">>>>,
     <<<<"\\uD801", "\\uDCF4">>, <<"\\uD801", "\\uDCCC">>>>, <<<<"\\uD801", "\\uDCF5">>, <<"\\uD801", "\\uDCCD">>>>,
     <<<<"\\uD801", "\\uDCF6">>, <<"\\uD801", "\\uDCCE">>>>, <<<<"\\uD801", "\\uDCF7">>, <<"\\uD801", "\\uDCCF">>>>,
     <<<<"\\uD801", "\\uDCF8">>, <<"\\uD801", "\\uDCD0">>>>, <<<<"\\uD801", "\\uDCF9">>, <<"\\uD801", "\\uDCD1">>>>,
     <<<<"\\uD801", "\\uDCFA">>, <<"\\uD801", "\\uDCD2">>>>, <<<<"\\uD801", "\\uDCFB">>, <<"\\uD801", "\\uDCD3">>>>,
     <<<<"\\uD801", "\\uDD97">>, <<"\\uD801", "\\uDD70">>>>, <<<<"\\uD801", "\\uDD98">>, <<"\\uD801", "\\uDD71">>>>,
     <<<<"\\uD801", "\\uDD99">>, <<"\\uD801", "\\uDD72">>>>, <<<<"\\uD801", "\\uDD9A">>, <<"\\uD801", "\\uDD73">>>>,
     <<<<"\\uD801", "\\uDD9B">>, <<"\\uD801", "\\uDD74">>>>, <<<<"\\uD801", "\\uDD9C">>, <<"\\uD801", "\\uDD75">>>>,
     <<<<"\\uD801", "\\uDD9D">>, <<"\\uD801", "\\uDD76">>>>, <<<<"\\uD801", "\\uDD9E">>, <<"\\uD801", "\\uDD77">>>>,
     <<<<"\\uD801", "\\uDD9F">>, <<"\\uD801", "\\uDD78">>>>, <<<<"\\uD801", "\\uDDA0">>, <<"\\uD801", "\\uDD79">>>>,
     <<<<"\\uD801", "\\uDDA1">>, <<"\\uD801", "\\uDD7A">>>>, <<<<"\\uD801", "\\uDDA3">>, <<"\\uD801", "\\uDD7C">>>>,
     <<<<"\\uD801", "\\uDDA4">>, <<"\\uD801", "\\uDD7D">>>>, <<<<"\\uD801", "\\uDDA5">>, <<"\\uD801", "\\uDD7E">>>>,
     <<<<"\\uD801", "\\uDDA6">>, <<"\\uD801", "\\uDD7F">>>>, <<<<"\\uD801", "\\uDDA7">>, <<"\\uD801", "\\uDD80">>>>,
     <<<<"\\uD801", "\\uDDA8">>, <<"\\uD801", "\\uDD81">>>>, <<<<"\\uD801", "\\uDDA9">>, <<"\\uD801", "\\uDD82">>>>,
     <<<<"\\uD801", "\\uDDAA">>, <<"\\uD801", "\\uDD83">>>>, <<<<"\\uD801", "\\uDDAB">>, <<"\\uD801", "\\uDD84">>>>,
     <<<<"\\uD801", "\\uDDAC">>, <<"\\uD801", "\\uDD85">>>>, <<<<"\\uD801", "\\uDDAD">>, <<"\\uD801", "\\uDD86">>>>,
     <<<<"\\uD801", "\\uDDAE">>, <<"\\uD801", "\\uDD87">>>>, <<<<"\\uD801", "\\uDDAF">>, <<"\\uD801", "\\uDD88">>>>,
     <<<<"\\uD801", "\\uDDB0">>, <<"\\uD801", "\\uDD89">>>>, <<<<"\\uD801", "\\uDDB1">>, <<"\\uD801", "\\uDD8A">>>>,
     <<<<"\\uD801", "\\uDDB3">>, <<"\\uD801", "\\uDD8C">>>>, <<<<"\\uD801", "\\uDDB4">>, <<"\\uD801", "\\uDD8D">>>>,
     <<<<"\\uD801", "\\uDDB5">>, <<"\\uD801", "\\uDD8E">>>>, <<<<"\\uD801", "\\uDDB6">>, <<"\\uD801", "\\uDD8F">>>>,
     <<<<"\\uD801", "\\uDDB7">>, <<"\\uD801", "\\uDD90">>>>, <<<<"\\uD801", "\\uDDB8">>, <<"\\uD801", "\\uDD91">>>>,
     <<<<"\\uD801", "\\uDDB9">>, <<"\\uD801", "\\uDD92">>>>, <<<<"\\uD801", "\\uDDBB">>, <<"\\uD801", "\\uDD94">>>>,
     <<<<"\\uD801", "\\uDDBC">>, <<"\\uD801", "\\uDD95">>>>, <<<<"\\uD803", "\\uDCC0">>, <<"\\uD803", "\\uDC80">>>>,
     <<<<"\\uD803", "\\uDCC1">>, <<"\\uD803", "\\uDC81">>>>, <<<<"\\uD803", "\\uDCC2">>, <<"\\uD803", "\\uDC82">>>>,
     <<<<"\\uD803", "\\uDCC3">>, <<"\\uD803", "\\uDC83">>>>, <<<<"\\uD803", "\\uDCC4">>, <<"\\uD803", "\\uDC84">>>>,
     <<<<"\\uD803", "\\uDCC5">>, <<"\\uD803", "\\uDC85">>>>, <<<<"\\uD803", "\\uDCC6">>, <<"\\uD803", "\\uDC86">>>>,
     <<<<"\\uD803", "\\uDCC7">>, <<"\\uD803", "\\uDC87">>>>, <<<<"\\uD803", "\\uDCC8">>, <<"\\uD803", "\\uDC88">>>>,
     <<<<"\\uD803", "\\uDCC9">>, <<"\\uD803", "\\uDC89">>>>, <<<<"\\uD803", "\\uDCCA">>, <<"\\uD803", "\\uDC8A">>>>,
     <<<<"\\uD803", "\\uDCCB">>, <<"\\uD803", "\\uDC8B">>>>, <<<<"\\uD803", "\\uDCCC">>, <<"\\uD803", "\\uDC8C">>>>,
     <<<<"\\uD803", "\\uDCCD">>, <<"\\uD803", "\\uDC8D">>>>, <<<<"\\uD803", "\\uDCCE">>, <<"\\uD803", "\\uDC8E">>>>,
     <<<<"\\uD803", "\\uDCCF">>, <<"\\uD803", "\\uDC8F">>>>, <<<<"\\uD803", "\\uDCD0">>, <<"\\uD803", "\\uDC90">>>>,
     <<<<"\\uD803", "\\uDCD1">>, <<"\\uD803", "\\uDC91">>>>, <<<<"\\uD803", "\\uDCD2">>, <<"\\uD803", "\\uDC92">>>>,
     <<<<"\\uD803", "\\uDCD3">>, <<"\\uD803", "\\uDC93">>>>, <<<<"\\uD803", "\\uDCD4">>, <<"\\uD803", "\\uDC94">>>>,
     <<<<"\\uD803", "\\uDCD5">>, <<"\\uD803", "\\uDC95">>>>, <<<<"\\uD803", "\\uDCD6">>, <<"\\uD803", "\\uDC96">>>>,
     <<<<"\\uD803", "\\uDCD7">>, <<"\\uD803", "\\uDC97">>>>, <<<<"\\uD803", "\\uDCD8">>, <<"\\uD803", "\\uDC98">>>>,
     <<<<"\\uD803", "\\uDCD9">>, <<"\\uD803", "\\uDC99">>>>, <<<<"\\uD803", "\\uDCDA">>, <<"\\uD803", "\\uDC9A">>>>,
     <<<<"\\uD803", "\\uDCDB">>, <<"\\uD803", "\\uDC9B">>>>, <<<<"\\uD803", "\\uDCDC">>, <<"\\uD803", "\\uDC9C">>>>,
     <<<<"\\uD803", "\\uDCDD">>, <<"\\uD803", "\\uDC9D">>>>, <<<<"\\uD803", "\\uDCDE">>, <<"\\uD803", "\\uDC9E">>>>,
     <<<<"\\uD803", "\\uDCDF">>, <<"\\uD803", "\\uDC9F">>>>, <<<<"\\uD803", "\\uDCE0">>, <<"\\uD803", "\\uDCA0">>>>,
     <<<<"\\uD803", "\\uDCE1">>, <<"\\uD803", "\\uDCA1">>>>, <<<<"\\uD803", "\\uDCE2">>, <<"\\uD803", "\\uDCA2">>>>,
     <<<<"\\uD803", "\\uDCE3">>, <<"\\uD803", "\\uDCA3">>>>, <<<<"\\uD803", "\\uDCE4">>, <<"\\uD803", "\\uDCA4">>>>,
     <<<<"\\uD803", "\\uDCE5">>, <<"\\uD803", "\\uDCA5">>>>, <<<<"\\uD803", "\\uDCE6">>, <<"\\uD803", "\\uDCA6">>>>,
     <<<<"\\uD803", "\\uDCE7">>, <<"\\uD803", "\\uDCA7">>>>, <<<<"\\uD803", "\\uDCE8">>, <<"\\uD803", "\\uDCA8">>>>,
     <<<<"\\uD803", "\\uDCE9">>, <<"\\uD803", "\\uDCA9">>>>, <<<<"\\uD803", "\\uDCEA">>, <<"\\uD803", "\\uDCAA">>>>,
     <<<<"\\uD803", "\\uDCEB">>, <<"\\uD803", "\\uDCAB">>>>, <<<<"\\uD803", "\\uDCEC">>, <<"\\uD803", "\\uDCAC">>>>,
     <<<<"\\uD803", "\\uDCED">>, <<"\\uD803", "\\uDCAD">>>>, <<<<"\\uD803", "\\uDCEE">>, <<"\\uD803", "\\uDCAE">>>>,
     <<<<"\\uD803", "\\uDCEF">>, <<"\\uD803", "\\uDCAF">>>>, <<<<"\\uD803", "\\uDCF0">>, <<"\\uD803", "\\uDCB0">>>>,
     <<<<"\\uD803", "\\uDCF1">>, <<"\\uD803", "\\uDCB1">>>>, <<<<"\\uD803", "\\uDCF2">>, <<"\\uD803", "\\uDCB2">>>>,
     <<<<"\\uD803", "\\uDD70">>, <<"\\uD803", "\\uDD50">>>>, <<<<"\\uD803", "\\uDD71">>, <<"\\uD803", "\\uDD51">>>>,
     <<<<"\\uD803", "\\uDD72">>, <<"\\uD803", "\\uDD52">>>>, <<<<"\\uD803", "\\uDD73">>, <<"\\uD803", "\\uDD53">>>>,
     <<<<"\\uD803", "\\uDD74">>, <<"\\uD803", "\\uDD54">>>>, <<<<"\\uD803", "\\uDD75">>, <<"\\uD803", "\\uDD55">>>>,
     <<<<"\\uD803", "\\uDD76">>, <<"\\uD803", "\\uDD56">>>>, <<<<"\\uD803", "\\uDD77">>, <<"\\uD803", "\\uDD57">>>>,
     <<<<"\\uD803", "\\uDD78">>, <<"\\uD803", "\\uDD58">>>>, <<<<"\\uD803", "\\uDD79">>, <<"\\uD803", "\\uDD59">>>>,
     <<<<"\\uD803", "\\uDD7A">>, <<"\\uD803", "\\uDD5A">>>>, <<<<"\\uD803", "\\uDD7B">>, <<"\\uD803", "\\uDD5B">>>>,
     <<<<"\\uD803", "\\uDD7C">>, <<"\\uD803", "\\uDD5C">>>>, <<<<"\\uD803", "\\uDD7D">>, <<"\\uD803", "\\uDD5D">>>>,
     <<<<"\\uD803", "\\uDD7E">>, <<"\\uD803", "\\uDD5E">>>>, <<<<"\\uD803", "\\uDD7F">>, <<"\\uD803", "\\uDD5F">>>>,
     <<<<"\\uD803", "\\uDD80">>, <<"\\uD803", "\\uDD60">>>>, <<<<"\\uD803", "\\uDD81">>, <<"\\uD803", "\\uDD61">>>>,
     <<<<"\\uD803", "\\uDD82">>, <<"\\uD803", "\\uDD62">>>>, <<<<"\\uD803", "\\uDD83">>, <<"\\uD803", "\\uDD63">>>>,
     <<<<"\\uD803", "\\uDD84">>, <<"\\uD803", "\\uDD64">>>>, <<<<"\\uD803", "\\uDD85">>, <<"\\uD803", "\\uDD65">>>>,
     <<<<"\\uD806", "\\uDCC0">>, <<"\\uD806", "\\uDCA0">>>>, <<<<"\\uD806", "\\uDCC1">>, <<"\\uD806", "\\uDCA1">>>>,
     <<<<"\\uD806", "\\uDCC2">>, <<"\\uD806", "\\uDCA2">>>>, <<<<"\\uD806", "\\uDCC3">>, <<"\\uD806", "\\uDCA3">>>>,
     <<<<"\\uD806", "\\uDCC4">>, <<"\\uD806", "\\uDCA4">>>>, <<<<"\\uD806", "\\uDCC5">>, <<"\\uD806", "\\uDCA5">>>>,
     <<<<"\\uD806", "\\uDCC6">>, <<"\\uD806", "\\uDCA6">>>>, <<<<"\\uD806", "\\uDCC7">>, <<"\\uD806", "\\uDCA7">>>>,
     <<<<"\\uD806", "\\uDCC8">>, <<"\\uD806", "\\uDCA8">>>>, <<<<"\\uD806", "\\uDCC9">>, <<"\\uD806", "\\uDCA9">>>>,
     <<<<"\\uD806", "\\uDCCA">>, <<"\\uD806", "\\uDCAA">>>>, <<<<"\\uD806", "\\uDCCB">>, <<"\\uD806", "\\uDCAB">>>>,
     <<<<"\\uD806", "\\uDCCC">>, <<"\\uD806", "\\uDCAC">>>>, <<<<"\\uD806", "\\uDCCD">>, <<"\\uD806", "\\uDCAD">>>>,
     <<<<"\\uD806", "\\uDCCE">>, <<"\\uD806", "\\uDCAE">>>>, <<<<"\\uD806", "\\uDCCF">>, <<"\\uD806", "\\uDCAF">>>>,
     <<<<"\\uD806", "\\uDCD0">>, <<"\\uD806", "\\uDCB0">>>>, <<<<"\\uD806", "\\uDCD1">>, <<"\\uD806", "\\uDCB1">>>>,
     <<<<"\\uD806", "\\uDCD2">>, <<"\\uD806", "\\uDCB2">>>>, <<<<"\\uD806", "\\uDCD3">>, <<"\\uD806", "\\uDCB3">>>>,
     <<<<"\\uD806", "\\uDCD4">>, <<"\\uD806", "\\uDCB4">>>>, <<<<"\\uD806", "\\uDCD5">>, <<"\\uD806", "\\uDCB5">>>>,
     <<<<"\\uD806", "\\uDCD6">>, <<"\\uD806", "\\uDCB6">>>>, <<<<"\\uD806", "\\uDCD7">>, <<"\\uD806", "\\uDCB7">>>>,
     <<<<"\\uD806", "\\uDCD8">>, <<"\\uD806", "\\uDCB8">>>>, <<<<"\\uD806", "\\uDCD9">>, <<"\\uD806", "\\uDCB9">>>>,
     <<<<"\\uD806", "\\uDCDA">>, <<"\\uD806", "\\uDCBA">>>>, <<<<"\\uD806", "\\uDCDB">>, <<"\\uD806", "\\uDCBB">>>>,
     <<<<"\\uD806", "\\uDCDC">>, <<"\\uD806", "\\uDCBC">>>>, <<<<"\\uD806", "\\uDCDD">>, <<"\\uD806", "\\uDCBD">>>>,
     <<<<"\\uD806", "\\uDCDE">>, <<"\\uD806", "\\uDCBE">>>>, <<<<"\\uD806", "\\uDCDF">>, <<"\\uD806", "\\uDCBF">>>>,
     <<<<"\\uD81B", "\\uDE60">>, <<"\\uD81B", "\\uDE40">>>>, <<<<"\\uD81B", "\\uDE61">>, <<"\\uD81B", "\\uDE41">>>>,
     <<<<"\\uD81B", "\\uDE62">>, <<"\\uD81B", "\\uDE42">>>>, <<<<"\\uD81B", "\\uDE63">>, <<"\\uD81B", "\\uDE43">>>>,
     <<<<"\\uD81B", "\\uDE64">>, <<"\\uD81B", "\\uDE44">>>>, <<<<"\\uD81B", "\\uDE65">>, <<"\\uD81B", "\\uDE45">>>>,
     <<<<"\\uD81B", "\\uDE66">>, <<"\\uD81B", "\\uDE46">>>>, <<<<"\\uD81B", "\\uDE67">>, <<"\\uD81B", "\\uDE47">>>>,
     <<<<"\\uD81B", "\\uDE68">>, <<"\\uD81B", "\\uDE48">>>>, <<<<"\\uD81B", "\\uDE69">>, <<"\\uD81B", "\\uDE49">>>>,
     <<<<"\\uD81B", "\\uDE6A">>, <<"\\uD81B", "\\uDE4A">>>>, <<<<"\\uD81B", "\\uDE6B">>, <<"\\uD81B", "\\uDE4B">>>>,
     <<<<"\\uD81B", "\\uDE6C">>, <<"\\uD81B", "\\uDE4C">>>>, <<<<"\\uD81B", "\\uDE6D">>, <<"\\uD81B", "\\uDE4D">>>>,
     <<<<"\\uD81B", "\\uDE6E">>, <<"\\uD81B", "\\uDE4E">>>>, <<<<"\\uD81B", "\\uDE6F">>, <<"\\uD81B", "\\uDE4F">>>>,
     <<<<"\\uD81B", "\\uDE70">>, <<"\\uD81B", "\\uDE50">>>>, <<<<"\\uD81B", "\\uDE71">>, <<"\\uD81B", "\\uDE51">>>>,
     <<<<"\\uD81B", "\\uDE72">>, <<"\\uD81B", "\\uDE52">>>>, <<<<"\\uD81B", "\\uDE73">>, <<"\\uD81B", "\\uDE53">>>>,
     <<<<"\\uD81B", "\\uDE74">>, <<"\\uD81B", "\\uDE54">>>>, <<<<"\\uD81B", "\\uDE75">>, <<"\\uD81B", "\\uDE55">>>>,
     <<<<"\\uD81B", "\\uDE76">>, <<"\\uD81B", "\\uDE56">>>>, <<<<"\\uD81B", "\\uDE77">>, <<"\\uD81B", "\\uDE57">>>>,
     <<<<"\\uD81B", "\\uDE78">>, <<"\\uD81B", "\\uDE58">>>>, <<<<"\\uD81B", "\\uDE79">>, <<"\\uD81B", "\\uDE59">>>>,
     <<<<"\\uD81B", "\\uDE7A">>, <<"\\uD81B", "\\uDE5A">>>>, <<<<"\\uD81B", "\\uDE7B">>, <<"\\uD81B", "\\uDE5B">>>>,
     <<<<"\\uD81B", "\\uDE7C">>, <<"\\uD81B", "\\uDE5C">>>>, <<<<"\\uD81B", "\\uDE7D">>, <<"\\uD81B", "\\uDE5D">>>>,
     <<<<"\\uD81B", "\\uDE7E">>, <<"\\uD81B", "\\uDE5E">>>>, <<<<"\\uD81B", "\\uDE7F">>, <<"\\uD81B", "\\uDE5F">>>>,
     <<<<"\\uD81B", "\\uDEBB">>, <<"\\uD81B", "\\uDEA0">>>>, <<<<"\\uD81B", "\\uDEBC">>, <<"\\uD81B", "\\uDEA1">>>>,
     <<<<"\\uD81B", "\\uDEBD">>, <<"\\uD81B", "\\uDEA2">>>>, <<<<"\\uD81B", "\\uDEBE">>, <<"\\uD81B", "\\uDEA3">>>>,
     <<<<"\\uD81B", "\\uDEBF">>, <<"\\uD81B", "\\uDEA4">>>>, <<<<"\\uD81B", "\\uDEC0">>, <<"\\uD81B", "\\uDEA5">>>>,
     <<<<"\\uD81B", "\\uDEC1">>, <<"\\uD81B", "\\uDEA6">>>>, <<<<"\\uD81B", "\\uDEC2">>, <<"\\uD81B", "\\uDEA7">>>>,
     <<<<"\\uD81B", "\\uDEC3">>, <<"\\uD81B", "\\uDEA8">>>>, <<<<"\\uD81B", "\\uDEC4">>, <<"\\uD81B", "\\uDEA9">>>>,
     <<<<"\\uD81B", "\\uDEC5">>, <<"\\uD81B", "\\uDEAA">>>>, <<<<"\\uD81B", "\\uDEC6">>, <<"\\uD81B", "\\uDEAB">>>>,
     <<<<"\\uD81B", "\\uDEC7">>, <<"\\uD81B", "\\uDEAC">>>>, <<<<"\\uD81B", "\\uDEC8">>, <<"\\uD81B", "\\uDEAD">>>>,
     <<<<"\\uD81B", "\\uDEC9">>, <<"\\uD81B", "\\uDEAE">>>>, <<<<"\\uD81B", "\\uDECA">>, <<"\\uD81B", "\\uDEAF">>>>,
     <<<<"\\uD81B", "\\uDECB">>, <<"\\uD81B", "\\uDEB0">>>>, <<<<"\\uD81B", "\\uDECC">>, <<"\\uD81B", "\\uDEB1">>>>,
     <<<<"\\uD81B", "\\uDECD">>, <<"\\uD81B", "\\uDEB2">>>>, <<<<"\\uD81B", "\\uDECE">>, <<"\\uD81B", "\\uDEB3">>>>,
     <<<<"\\uD81B", "\\uDECF">>, <<"\\uD81B", "\\uDEB4">>>>, <<<<"\\uD81B", "\\uDED0">>, <<"\\uD81B", "\\uDEB5">>>>,
     <<<<"\\uD81B", "\\uDED1">>, <<"\\uD81B", "\\uDEB6">>>>, <<<<"\\uD81B", "\\uDED2">>, <<"\\uD81B", "\\uDEB7">>>>,
     <<<<"\\uD81B", "\\uDED3">>, <<"\\uD81B", "\\uDEB8">>>>, <<<<"\\uD83A", "\\uDD22">>, <<"\\uD83A", "\\uDD00">>>>,
     <<<<"\\uD83A", "\\uDD23">>, <<"\\uD83A", "\\uDD01">>>>, <<<<"\\uD83A", "\\uDD24">>, <<"\\uD83A", "\\uDD02">>>>,
     <<<<"\\uD83A", "\\uDD25">>, <<"\\uD83A", "\\uDD03">>>>, <<<<"\\uD83A", "\\uDD26">>, <<"\\uD83A", "\\uDD04">>>>,
     <<<<"\\uD83A", "\\uDD27">>, <<"\\uD83A", "\\uDD05">>>>, <<<<"\\uD83A", "\\uDD28">>, <<"\\uD83A", "\\uDD06">>>>,
     <<<<"\\uD83A", "\\uDD29">>, <<"\\uD83A", "\\uDD07">>>>, <<<<"\\uD83A", "\\uDD2A">>, <<"\\uD83A", "\\uDD08">>>>,
     <<<<"\\uD83A", "\\uDD2B">>, <<"\\uD83A", "\\uDD09">>>>, <<<<"\\uD83A", "\\uDD2C">>, <<"\\uD83A", "\\uDD0A">>>>,
     <<<<"\\uD83A", "\\uDD2D">>, <<"\\uD83A", "\\uDD0B">>>>, <<<<"\\uD83A", "\\uDD2E">>, <<"\\uD83A", "\\uDD0C">>>>,
     <<<<"\\uD83A", "\\uDD2F">>, <<"\\uD83A", "\\uDD0D">>>>, <<<<"\\uD83A", "\\uDD30">>, <<"\\uD83A", "\\uDD0E">>>>,
     <<<<"\\uD83A", "\\uDD31">>, <<"\\uD83A", "\\uDD0F">>>>, <<<<"\\uD83A", "\\uDD32">>, <<"\\uD83A", "\\uDD10">>>>,
     <<<<"\\uD83A", "\\uDD33">>, <<"\\uD83A", "\\uDD11">>>>, <<<<"\\uD83A", "\\uDD34">>, <<"\\uD83A", "\\uDD12">>>>,
     <<<<"\\uD83A", "\\uDD35">>, <<"\\uD83A", "\\uDD13">>>>, <<<<"\\uD83A", "\\uDD36">>, <<"\\uD83A", "\\uDD14">>>>,
     <<<<"\\uD83A", "\\uDD37">>, <<"\\uD83A", "\\uDD15">>>>, <<<<"\\uD83A", "\\uDD38">>, <<"\\uD83A", "\\uDD16">>>>,
     <<<<"\\uD83A", "\\uDD39">>, <<"\\uD83A", "\\uDD17">>>>, <<<<"\\uD83A", "\\uDD3A">>, <<"\\uD83A", "\\uDD18">>>>,
     <<<<"\\uD83A", "\\uDD3B">>, <<"\\uD83A", "\\uDD19">>>>, <<<<"\\uD83A", "\\uDD3C">>, <<"\\uD83A", "\\uDD1A">>>>,
     <<<<"\\uD83A", "\\uDD3D">>, <<"\\uD83A", "\\uDD1B">>>>, <<<<"\\uD83A", "\\uDD3E">>, <<"\\uD83A", "\\uDD1C">>>>,
     <<<<"\\uD83A", "\\uDD3F">>, <<"\\uD83A", "\\uDD1D">>>>, <<<<"\\uD83A", "\\uDD40">>, <<"\\uD83A", "\\uDD1E">>>>,
     <<<<"\\uD83A", "\\uDD41">>, <<"\\uD83A", "\\uDD1F">>>>, <<<<"\\uD83A", "\\uDD42">>, <<"\\uD83A", "\\uDD20">>>>,
     <<<<"\\uD83A", "\\uDD43">>, <<"\\uD83A", "\\uDD21">>>>
  >>

\* the surrogate pairs of AstralUpper
AstralLower == {AstralUpper[k][1] : k \in 1..Len(AstralUpper)}

\* String.prototype.toUpperCase of one code unit of the Basic Multilingual
\* Plane (a surrogate on its own stays as it is): the code units it becomes
UpperChar(c) ==
  IF \E k \in 1..Len(LowerCase) : LowerCase[k] = c
  THEN <<UpperCase[CHOOSE k \in 1..Len(LowerCase) : LowerCase[k] = c]>>
  ELSE IF c \in UnicodeLower
  THEN UnicodeUpper[CHOOSE k \in 1..Len(UnicodeUpper) : UnicodeUpper[k][1] = c][2]
  ELSE <<c>>

\* String.prototype.toUpperCase converts code point by code point: a
\* surrogate pair is one code point
RECURSIVE toUpperCase(_)
toUpperCase(s) ==
  IF s = <<>> THEN <<>>
  ELSE IF Len(s) >= 2 /\ <<s[1], s[2]>> \in AstralLower
  THEN AstralUpper[CHOOSE k \in 1..Len(AstralUpper) :
                     AstralUpper[k][1] = <<s[1], s[2]>>][2]
       \o toUpperCase(SubSeq(s, 3, Len(s)))
  ELSE UpperChar(Head(s)) \o toUpperCase(Tail(s))

\* WhiteSpace and LineTerminator of ECMAScript, the characters that
\* String.prototype.trim removes and \s matches: tab, line feed, vertical
\* tab, form feed, carriage return, space, U+00A0, U+1680, U+2000..U+200A,
\* U+2028, U+2029, U+202F, U+205F, U+3000, U+FEFF
WhiteSpace ==
  {"\t", "\n", "", "\f", "\r", " ", " ",
   " ", "\\u2000", "\\u2001", "\\u2002", "\\u2003", "\\u2004", "\\u2005",
   "\\u2006", "\\u2007", "\\u2008", "\\u2009", "\\u200A", "\\u2028", "\\u2029",
   "\\u202F", "\\u205F", "\\u3000", "﻿"}

IsSpace(c) == c \in WhiteSpace

RECURSIVE trimStart(_)
trimStart(s) ==
  IF s # <<>> /\ IsSpace(Head(s)) THEN trimStart(Tail(s)) ELSE s

RECURSIVE trimEnd(_)
trimEnd(s) ==
  IF s # <<>> /\ IsSpace(s[Len(s)]) THEN trimEnd(SubSeq(s, 1, Len(s) - 1)) ELSE s

\* the faulty variant of trim: nothing is trimmed
trim_Nothing(s) == s

\* String.prototype.trim
trim(s) == trimEnd(trimStart(s))

\* String.prototype.split(/\s+/): cur is the piece being collected, inRun
\* tells that the previous character belonged to a separator run
RECURSIVE splitFrom(_, _, _)
splitFrom(s, cur, inRun) ==
  IF s = <<>> THEN <<cur>>
  ELSE IF IsSpace(Head(s))
       THEN IF inRun THEN splitFrom(Tail(s), cur, TRUE)
            ELSE <<cur>> \o splitFrom(Tail(s), <<>>, TRUE)
       ELSE splitFrom(Tail(s), Append(cur, Head(s)), FALSE)

splitWhitespace(s) == splitFrom(s, <<>>, FALSE)

\* const text = textToTransmit.toUpperCase().trim(); words = text.split(/\s+/)
WordsOf(textToTransmit) == splitWhitespace(trim(toUpperCase(textToTransmit)))

\* the texts handed to transmitMorseWithText
InputTexts ==
  { <<"n", "!", " ", " ", "E">>,
    <<" ", " ">>,
    <<>> }


(* ------------------------------------------------------------------------ *)
(* State                                                                      *)
(* ------------------------------------------------------------------------ *)
VARIABLES
  permission,              \* useCameraPermissions(): "null", "denied", "granted"
  launchWithFlashlightOn,  \* preference read from PreferencesContext
  mounted,                 \* the component has not been unmounted
  isFlashlightOn,          \* useState: the output flag (enableTorch)
  sosMode,                 \* useState: UI flag of the SOS mode
  isTransmitting,          \* useState: UI flag of the Morse mode
  currentChar,             \* useState: character shown as being sent
  sosActiveRef,            \* useRef: cancellation flag of the SOS loop
  morseActiveRef,          \* useRef: cancellation flag of the Morse loop
  loops,                   \* the pulse loops, each suspended at an await
  starts,                  \* history: number of pulse loops started so far
  event,                   \* history: the last operation and the calls of
                           \* setIsFlashlightOn it made, in order
  scope,                   \* history: an oscilloscope on enableTorch, the
                           \* ON and OFF segments of the output with their
                           \* lengths in milliseconds, while it is attached
  heading,                 \* CompassScreen useState: the heading in degrees
  displayedHeading,        \* CompassScreen useState: the heading shown as text
  previousAngleRef,        \* CompassScreen useRef
  cumulativeRotationRef,   \* CompassScreen useRef
  textUpdateAge,           \* Date.now() - lastTextUpdateRef.current at the
                           \* last sample, counted up to TEXT_UPDATE_INTERVAL
  northHapticAge,          \* Date.now() - lastNorthHapticRef.current at the
                           \* last sample, counted up to HAPTIC_DEBOUNCE
  isFirstUpdate,           \* CompassScreen: local of subscribe()
  sample,                  \* history: the last magnetometer sample handled
  compassSub,              \* CompassScreen: the component is mounted, the
                           \* useState subscription, the value of it that the
                           \* closure of the effect holds, and whether the
                           \* listener is registered with Magnetometer
  xAngle,                  \* LevelScreen useState, tenths of a degree
  yAngle,                  \* LevelScreen useState, tenths of a degree
  displayedXAngle,         \* LevelScreen useState, tenths of a degree
  displayedYAngle,         \* LevelScreen useState, tenths of a degree
  levelTextAge,            \* Date.now() - lastTextUpdateRef.current at the
                           \* last sample, counted up to TEXT_UPDATE_INTERVAL
  levelSub,                \* LevelScreen: as compassSub, for Accelerometer
  isDarkMode,              \* PreferencesProvider useState
  storage,                 \* AsyncStorage: the value under each of the two keys
  load,                    \* loadPreferences: where the async function is,
                           \* and the values its getItem calls returned
  pendingWrites,           \* the setItem calls that have not settled yet
  toggles                  \* history: number of toggle calls so far

\* the variables of the FlashlightScreen
flashVars == <<permission, launchWithFlashlightOn, mounted, isFlashlightOn,
               sosMode, isTransmitting, currentChar, sosActiveRef,
               morseActiveRef, loops, starts, event, scope>>

\* the variables of the CompassScreen
compassVars == <<heading, displayedHeading, previousAngleRef,
                 cumulativeRotationRef, textUpdateAge, northHapticAge,
                 isFirstUpdate, sample, compassSub>>

\* the variables of the LevelScreen
levelVars == <<xAngle, yAngle, displayedXAngle, displayedYAngle, levelTextAge,
               levelSub>>

\* the variables of the PreferencesProvider, launchWithFlashlightOn apart
prefsVars == <<isDarkMode, storage, load, pendingWrites, toggles>>

\* what the handlers of the FlashlightScreen leave alone
otherVars == <<compassVars, levelVars, prefsVars>>

vars == <<flashVars, compassVars, levelVars, prefsVars>>

\* the component state a handler reads and writes
uiVars == <<isFlashlightOn, sosMode, isTransmitting, currentChar,
            sosActiveRef, morseActiveRef>>

LoopIds == 1..MaxLoops

\* a slot without a loop.  Of a loop record, kind..rem are the position of
\* the async function; the other fields are history: pulses counts the ON
\* segments it began, sinceStop the milliseconds since it was stopped (-1:
\* not stopped), cancelled tells that a stop, a start of the other mode or a
\* teardown was called after its start, overSOS that the start of this Morse
\* loop found sosMode set
NoLoop ==
  [kind |-> "none", at |-> "none", group |-> 0, i |-> 0, words |-> <<>>,
   wordIndex |-> 0, charIndex |-> 0, rem |-> 0, pulses |-> 0, sinceStop |-> -1,
   cancelled |-> FALSE, overSOS |-> FALSE]

NullChar == [kind |-> "null", char |-> ""]

\* The component state as one value, threaded through the statements of a
\* handler; writes collects the setIsFlashlightOn calls of the running handler.
Cur ==
  [isFlashlightOn |-> isFlashlightOn, sosMode |-> sosMode,
   isTransmitting |-> isTransmitting, currentChar |-> currentChar,
   sosActiveRef |-> sosActiveRef, morseActiveRef |-> morseActiveRef,
   writes |-> <<>>]

\* setIsFlashlightOn(v), called by `by` (loop l when by = "loop")
setIsFlashlightOn(st, v, by, l) ==
  [st EXCEPT !.isFlashlightOn = v,
             !.writes = Append(@, [by |-> by, loop |-> l, val |-> v])]

\* the oscilloscope before anything was recorded, and when it is not attached
ScopeIdle == [attached |-> TRUE, segs |-> <<[on |-> FALSE, ms |-> 0]>>]
ScopeOff == [attached |-> FALSE, segs |-> <<[on |-> FALSE, ms |-> 0]>>]

\* enableTorch={isFlashlightOn} takes the value v: a new segment begins when
\* the value changes; a segment that lasted no time at all is not recorded;
\* after MaxSegments segments the oscilloscope is taken off
ScopeWrite(sc, v) ==
  LET n == Len(sc.segs)
  IN  IF ~sc.attached \/ sc.segs[n].on = v THEN sc
      ELSE IF sc.segs[n].ms = 0
           THEN IF n = 1 THEN [sc EXCEPT !.segs = <<[on |-> v, ms |-> 0]>>]
                ELSE [sc EXCEPT !.segs = SubSeq(@, 1, n - 1)]
           ELSE IF n >= MaxSegments THEN [sc EXCEPT !.attached = FALSE]
                ELSE [sc EXCEPT !.segs = Append(@, [on |-> v, ms |-> 0])]

RECURSIVE ScopeWrites(_, _)
ScopeWrites(sc, writes) ==
  IF writes = <<>> THEN sc
  ELSE ScopeWrites(ScopeWrite(sc, Head(writes).val), Tail(writes))

\* TickMs milliseconds pass with the output unchanged
ScopeTick(sc) ==
  IF ~sc.attached THEN sc
  ELSE [sc EXCEPT !.segs[Len(sc.segs)].ms = @ + TickMs]

\* the state after the handler: the React state and the refs
Commit(st, op, l, ended) ==
  /\ scope' = ScopeWrites(scope, st.writes)
  /\ isFlashlightOn' = st.isFlashlightOn
  /\ sosMode' = st.sosMode
  /\ isTransmitting' = st.isTransmitting
  /\ currentChar' = st.currentChar
  /\ sosActiveRef' = st.sosActiveRef
  /\ morseActiveRef' = st.morseActiveRef
  /\ event' = [op |-> op, loop |-> l, writes |-> st.writes, ended |-> ended]

Alive(l) == loops[l].kind # "none"

\* the slot a newly started loop takes
FreeSlot == CHOOSE l \in LoopIds : ~Alive(l) /\ \A k \in 1..(l - 1) : Alive(k)

HasFreeSlot == starts < MaxStarts /\ \E l \in LoopIds : ~Alive(l)

(* ------------------------------------------------------------------------ *)
(* stopSOS / stopMorse / effect cleanup                                       *)
(* ------------------------------------------------------------------------ *)
\* faulty variant: stopSOS that leaves the UI flag of the SOS mode set
stopSOSState_KeepsMode(st) ==
  setIsFlashlightOn([st EXCEPT !.sosActiveRef = FALSE], FALSE, "stopSOS", 0)

stopSOSState(st) ==
  setIsFlashlightOn([st EXCEPT !.sosActiveRef = FALSE, !.sosMode = FALSE],
                    FALSE, "stopSOS", 0)

\* faulty variant: stopMorse that leaves the cancellation flag of the Morse loop set
stopMorseState_KeepsRef(st) ==
  [setIsFlashlightOn([st EXCEPT !.isTransmitting = FALSE],
                     FALSE, "stopMorse", 0)
     EXCEPT !.currentChar = NullChar]

stopMorseState(st) ==
  [setIsFlashlightOn([st EXCEPT !.morseActiveRef = FALSE,
                                !.isTransmitting = FALSE],
                     FALSE, "stopMorse", 0)
     EXCEPT !.currentChar = NullChar]

cleanupState(st) ==
  setIsFlashlightOn([st EXCEPT !.sosActiveRef = FALSE,
                               !.morseActiveRef = FALSE],
                    FALSE, "cleanup", 0)

\* useEffect(launchWithFlashlightOn, permission)
launchEffectState(st, launch, perm) ==
  IF launch /\ perm = "granted"
  THEN setIsFlashlightOn(st, TRUE, "launch", 0)
  ELSE st

\* history: a stop request for the modes `kinds` starts the stop clock
\* (sinceStop, milliseconds) of every live loop of these modes that is not
\* already stopped, and marks it cancelled
MarkStopped(ls, kinds) ==
  [l \in LoopIds |->
     IF ls[l].kind \in kinds
     THEN [ls[l] EXCEPT !.sinceStop = IF @ = -1 THEN 0 ELSE @,
                        !.cancelled = TRUE]
     ELSE ls[l]]

\* history: a call that the claims count as a cancellation of the live loops
\* of the modes `kinds`, whether or not it ran a stop
MarkCancelled(ls, kinds) ==
  [l \in LoopIds |->
     IF ls[l].kind \in kinds THEN [ls[l] EXCEPT !.cancelled = TRUE] ELSE ls[l]]


(* ------------------------------------------------------------------------ *)
(* The SOS loop (startSOS, lines 665-705).  A loop record tells the await it  *)
(* is suspended at: "flash" (670/682/694), "pause" (672/684/696), "group"     *)
(* (676/688) or "pattern" (700), with the group 0..2 and the index i of the   *)
(* for statement.  Each operator returns the component state and the loop    *)
(* record at the next await, or NoLoop after the function returned.           *)
(* ------------------------------------------------------------------------ *)
\* the faulty variant of FlashMs: every group flashes short
FlashMs_AllShort(group) == SHORT_FLASH

FlashMs(group) == IF group = 1 THEN LONG_FLASH ELSE SHORT_FLASH

\* lines 703-705, after the while statement
SOSExit(st, lp, l) ==
  [st |-> [setIsFlashlightOn(st, FALSE, "loop", l) EXCEPT !.sosMode = FALSE],
   lp |-> NoLoop]

\* lines 675-676, 687-688, 699-700: the check and the sleep after a group
SOSAfterFor(st, lp, l) ==
  IF ~st.sosActiveRef
  THEN SOSExit(st, lp, l)
  ELSE [st |-> st,
        lp |-> [lp EXCEPT !.at = IF lp.group < 2 THEN "group" ELSE "pattern",
                          !.rem = IF lp.group < 2 THEN PAUSE * 2
                                  ELSE PATTERN_PAUSE]]

\* one evaluation of `i < 3` and of the body up to its first await
SOSFor(st, lp, l, group, i) ==
  IF i < 3
  THEN IF ~st.sosActiveRef
       THEN SOSAfterFor(st, [lp EXCEPT !.group = group, !.i = i], l)
       ELSE [st |-> setIsFlashlightOn(st, TRUE, "loop", l),
             lp |-> [lp EXCEPT !.at = "flash", !.group = group, !.i = i,
                               !.rem = FlashMs(group)]]
  ELSE SOSAfterFor(st, [lp EXCEPT !.group = group, !.i = i], l)

\* faulty variant: the pattern is sent once, the loop ends after its pause
SOSWhile_Once(st, lp, l) ==
  IF st.sosActiveRef /\ lp.at # "pattern" THEN SOSFor(st, lp, l, 0, 0)
  ELSE SOSExit(st, lp, l)

\* line 665: while (sosActiveRef.current)
SOSWhile(st, lp, l) ==
  IF st.sosActiveRef THEN SOSFor(st, lp, l, 0, 0) ELSE SOSExit(st, lp, l)

\* the code run when the timer of the loop's await fires
SOSWake(st, lp, l) ==
  CASE lp.at = "flash" ->
         LET off == setIsFlashlightOn(st, FALSE, "loop", l)
         IN  IF lp.i < 2
             THEN [st |-> off, lp |-> [lp EXCEPT !.at = "pause", !.rem = PAUSE]]
             ELSE SOSFor(off, lp, l, lp.group, lp.i + 1)
    [] lp.at = "pause" -> SOSFor(st, lp, l, lp.group, lp.i + 1)
    [] lp.at = "group" -> SOSFor(st, lp, l, lp.group + 1, 0)
    [] lp.at = "pattern" -> SOSWhile(st, lp, l)

(* ------------------------------------------------------------------------ *)
(* The Morse loop (transmitMorseWithText, lines 800-861).  Awaits: "flash"    *)
(* (825), "parts" (832), "letters" (838), "ignored" (843), "words" (850).     *)
(* ------------------------------------------------------------------------ *)
CharsOf(lp) == lp.words[lp.wordIndex + 1]
CharOf(lp) == CharsOf(lp)[lp.charIndex + 1]
PatternOf(lp) == MORSE_CODE[CharOf(lp)]

\* faulty variant: a finally block that does not switch the output off
MorseFinally_NoOff(st, lp, l) ==
  [st |-> [st EXCEPT !.isTransmitting = FALSE, !.currentChar = NullChar,
                     !.morseActiveRef = FALSE],
   lp |-> NoLoop]

\* finally, lines 855-861
MorseFinally(st, lp, l) ==
  [st |-> [setIsFlashlightOn(st, FALSE, "loop", l)
             EXCEPT !.isTransmitting = FALSE, !.currentChar = NullChar,
                    !.morseActiveRef = FALSE],
   lp |-> NoLoop]

\* lines 847-851 and the next evaluation of the word loop's condition, which
\* is false after the last word
MorseAfterChars(st, lp, l) ==
  IF lp.wordIndex < Len(lp.words) - 1
  THEN [st |-> [st EXCEPT !.currentChar = [kind |-> "space", char |-> ""]],
        lp |-> [lp EXCEPT !.at = "words", !.rem = PAUSE_WORDS]]
  ELSE MorseFinally(st, lp, l)

\* lines 836-839 and the next evaluation of the character loop's condition,
\* which is false after the last character
MorseAfterSymbols(st, lp, l) ==
  IF lp.charIndex < Len(CharsOf(lp)) - 1
  THEN [st |-> st, lp |-> [lp EXCEPT !.at = "letters", !.rem = PAUSE_LETTERS]]
  ELSE MorseAfterChars(st, lp, l)

\* lines 817-825: one evaluation of `i < pattern.length` and of the body up
\* to its first await (lp.charIndex names a character of the table)
MorseSymbolLoop(st, lp, l, i) ==
  IF i < Len(PatternOf(lp))
  THEN IF ~st.morseActiveRef
       THEN MorseAfterSymbols(st, [lp EXCEPT !.i = i], l)
       ELSE [st |-> setIsFlashlightOn(st, TRUE, "loop", l),
             lp |-> [lp EXCEPT !.at = "flash", !.i = i,
                               !.rem = IF PatternOf(lp)[i + 1] = "."
                                       THEN DOT_DURATION ELSE DASH_DURATION,
                               !.pulses = @ + 1]]
  ELSE MorseAfterSymbols(st, [lp EXCEPT !.i = i], l)

\* lines 807-844: one evaluation of `charIndex < chars.length` and of the
\* body up to its first await
MorseCharLoop(st, lp, l, charIndex) ==
  LET lc == [lp EXCEPT !.charIndex = charIndex, !.i = 0]
  IN  IF charIndex < Len(CharsOf(lp))
      THEN IF ~st.morseActiveRef
           THEN MorseAfterChars(st, lc, l)
           ELSE IF CharOf(lc) \in DOMAIN MORSE_CODE
                THEN MorseSymbolLoop(
                       [st EXCEPT !.currentChar =
                                     [kind |-> "pattern", char |-> CharOf(lc)]],
                       lc, l, 0)
                ELSE [st |-> [st EXCEPT !.currentChar =
                                     [kind |-> "ignored", char |-> CharOf(lc)]],
                      lp |-> [lc EXCEPT !.at = "ignored",
                                        !.rem = PAUSE_LETTERS]]
      ELSE MorseAfterChars(st, lc, l)

\* lines 801-805: one evaluation of `wordIndex < words.length` and of the
\* body up to its first await
MorseWordLoop(st, lp, l, wordIndex) ==
  LET lw == [lp EXCEPT !.wordIndex = wordIndex, !.charIndex = 0, !.i = 0]
  IN  IF wordIndex < Len(lp.words)
      THEN IF ~st.morseActiveRef
           THEN MorseFinally(st, lw, l)
           ELSE MorseCharLoop(st, lw, l, 0)
      ELSE MorseFinally(st, lw, l)

\* the faulty variant of MorseWake: the pause of an ignored character ends
\* the word
MorseWake_IgnoredEndsWord(st, lp, l) ==
  CASE lp.at = "flash" ->
         LET off == setIsFlashlightOn(st, FALSE, "loop", l)
         IN  IF lp.i < Len(PatternOf(lp)) - 1
             THEN [st |-> off,
                   lp |-> [lp EXCEPT !.at = "parts", !.rem = PAUSE_PARTS]]
             ELSE MorseSymbolLoop(off, lp, l, lp.i + 1)
    [] lp.at = "parts" -> MorseSymbolLoop(st, lp, l, lp.i + 1)
    [] lp.at = "letters" -> MorseCharLoop(st, lp, l, lp.charIndex + 1)
    [] lp.at = "ignored" -> MorseAfterChars(st, lp, l)
    [] lp.at = "words" -> MorseWordLoop(st, lp, l, lp.wordIndex + 1)

\* the code run when the timer of the loop's await fires
MorseWake(st, lp, l) ==
  CASE lp.at = "flash" ->
         LET off == setIsFlashlightOn(st, FALSE, "loop", l)
         IN  IF lp.i < Len(PatternOf(lp)) - 1
             THEN [st |-> off,
                   lp |-> [lp EXCEPT !.at = "parts", !.rem = PAUSE_PARTS]]
             ELSE MorseSymbolLoop(off, lp, l, lp.i + 1)
    [] lp.at = "parts" -> MorseSymbolLoop(st, lp, l, lp.i + 1)
    [] lp.at \in {"letters", "ignored"} ->
         MorseCharLoop(st, lp, l, lp.charIndex + 1)
    [] lp.at = "words" -> MorseWordLoop(st, lp, l, lp.wordIndex + 1)


(* ------------------------------------------------------------------------ *)
(* Initial state: the components as constructed (lines 521-530, 43-50, 67)    *)
(* ------------------------------------------------------------------------ *)
\* a screen after its first render, before its effect has run: mounted, the
\* state subscription null, no closure of the effect yet ("none"), no
\* listener registered
NoSubscription ==
  [mounted |-> TRUE, subscription |-> "null", closure |-> "none",
   listening |-> FALSE]

\* loadPreferences before its first statement
NotLoaded ==
  [at |-> "start", darkMode |-> "pending", launchFlashlight |-> "pending"]

NoSample ==
  [raw |-> 0, first |-> FALSE, from |-> 0, delta |-> 0, haptic |-> FALSE]

\* both time stamps start at 0, far before any value of Date.now()
InitCompass ==
  /\ heading = 0
  /\ displayedHeading = 0
  /\ previousAngleRef = 0
  /\ cumulativeRotationRef = 0
  /\ textUpdateAge = TEXT_UPDATE_INTERVAL
  /\ northHapticAge = HAPTIC_DEBOUNCE
  /\ isFirstUpdate = TRUE
  /\ sample = NoSample
  /\ compassSub = NoSubscription

\* LevelScreen as constructed (lines 33-40)
InitLevel ==
  /\ xAngle = 0
  /\ yAngle = 0
  /\ displayedXAngle = 0
  /\ displayedYAngle = 0
  /\ levelTextAge = TEXT_UPDATE_INTERVAL
  /\ levelSub = NoSubscription

\* PreferencesProvider as constructed (lines 50-51), nothing stored yet
InitPrefs ==
  /\ isDarkMode = FALSE
  /\ storage = [DARK_MODE |-> "null", LAUNCH_FLASHLIGHT |-> "null"]
  /\ load = NotLoaded
  /\ pendingWrites = <<>>
  /\ toggles = 0

InitFlashlight ==
  /\ permission = "null"
  /\ launchWithFlashlightOn = FALSE
  /\ mounted = TRUE
  /\ isFlashlightOn = FALSE
  /\ sosMode = FALSE
  /\ isTransmitting = FALSE
  /\ currentChar = NullChar
  /\ sosActiveRef = FALSE
  /\ morseActiveRef = FALSE
  /\ loops = [l \in LoopIds |-> NoLoop]
  /\ starts = 0
  /\ event = [op |-> "init", loop |-> 0, writes |-> <<>>, ended |-> NoLoop]

Init ==
  InitFlashlight /\ scope = ScopeOff /\ InitCompass /\ InitLevel /\ InitPrefs

envVars == <<permission, launchWithFlashlightOn, mounted>>

(* ------------------------------------------------------------------------ *)
(* Handlers                                                                   *)
(* ------------------------------------------------------------------------ *)
\* faulty variant: toggleFlashlight without the guard of line 608
toggleFlashlight_NoGuard ==
  /\ mounted
  /\ IF permission # "granted" THEN Commit(Cur, "toggleFlashlight", 0, NoLoop)
     ELSE Commit(setIsFlashlightOn(Cur, ~isFlashlightOn, "toggle", 0),
                 "toggleFlashlight", 0, NoLoop)
  /\ UNCHANGED <<envVars, loops, starts, otherVars>>

\* faulty variant: toggleFlashlight without the permission guard of line 602
toggleFlashlight_NoPermission ==
  /\ mounted
  /\ IF sosMode \/ isTransmitting THEN Commit(Cur, "toggleFlashlight", 0, NoLoop)
     ELSE Commit(setIsFlashlightOn(Cur, ~isFlashlightOn, "toggle", 0),
                 "toggleFlashlight", 0, NoLoop)
  /\ UNCHANGED <<envVars, loops, starts, otherVars>>

\* lines 601-613
toggleFlashlight ==
  /\ mounted
  /\ IF permission # "granted" THEN Commit(Cur, "toggleFlashlight", 0, NoLoop)
     ELSE IF sosMode \/ isTransmitting THEN Commit(Cur, "toggleFlashlight", 0, NoLoop)
     ELSE Commit(setIsFlashlightOn(Cur, ~isFlashlightOn, "toggle", 0),
                 "toggleFlashlight", 0, NoLoop)
  /\ UNCHANGED <<envVars, loops, starts, otherVars>>

\* lines 646-706, up to the first await of the loop
startSOS ==
  /\ mounted
  /\ IF permission # "granted"
     THEN /\ Commit(Cur, "startSOS", 0, NoLoop)
          /\ UNCHANGED <<loops, starts>>
     ELSE /\ HasFreeSlot
          /\ LET l == FreeSlot
                 st1 == IF isTransmitting THEN stopMorseState(Cur) ELSE Cur
                 st2 == [st1 EXCEPT !.sosMode = TRUE, !.sosActiveRef = TRUE]
                 ls == IF isTransmitting THEN MarkStopped(loops, {"morse"})
                       ELSE MarkCancelled(loops, {"morse"})
                 r == SOSWhile(st2, [NoLoop EXCEPT !.kind = "sos"], l)
             IN  /\ loops' = [ls EXCEPT ![l] = r.lp]
                 /\ starts' = starts + 1
                 /\ Commit(r.st, "startSOS", l, NoLoop)
  /\ UNCHANGED <<envVars, otherVars>>

\* lines 715-719
stopSOS ==
  /\ mounted
  /\ Commit(stopSOSState(Cur), "stopSOS", 0, NoLoop)
  /\ loops' = MarkStopped(loops, {"sos"})
  /\ UNCHANGED <<envVars, starts, otherVars>>

\* lines 770-862, up to the first await of the loop
transmitMorseWithText(textToTransmit) ==
  /\ mounted
  /\ IF permission # "granted" \/ trim(textToTransmit) = <<>>
     THEN /\ Commit(Cur, "transmitMorseWithText", 0, NoLoop)
          /\ UNCHANGED <<loops, starts>>
     ELSE /\ HasFreeSlot
          /\ LET l == FreeSlot
                 st1 == IF sosMode THEN stopSOSState(Cur) ELSE Cur
                 st2 == [st1 EXCEPT !.isTransmitting = TRUE,
                                    !.morseActiveRef = TRUE,
                                    !.currentChar = NullChar]
                 ls == IF sosMode THEN MarkStopped(loops, {"sos"}) ELSE loops
                 r == MorseWordLoop(
                        st2, [NoLoop EXCEPT !.kind = "morse",
                                            !.words = WordsOf(textToTransmit),
                                            !.overSOS = sosMode],
                        l, 0)
             IN  /\ loops' = [ls EXCEPT ![l] = r.lp]
                 /\ starts' = starts + 1
                 /\ Commit(r.st, "transmitMorseWithText", l, NoLoop)
  /\ UNCHANGED <<envVars, otherVars>>

\* lines 871-876
stopMorse ==
  /\ mounted
  /\ Commit(stopMorseState(Cur), "stopMorse", 0, NoLoop)
  /\ loops' = MarkStopped(loops, {"morse"})
  /\ UNCHANGED <<envVars, starts, otherVars>>

(* ------------------------------------------------------------------------ *)
(* Timers                                                                     *)
(* ------------------------------------------------------------------------ *)
\* the loop l, suspended at an await of sleep (lines 624-626), runs to its
\* next await or to its end
RunLoop(l) ==
     LET r == IF loops[l].kind = "sos" THEN SOSWake(Cur, loops[l], l)
              ELSE MorseWake(Cur, loops[l], l)
         op == IF r.lp = NoLoop
               THEN (IF loops[l].kind = "sos" THEN "sosExit" ELSE "morseExit")
               ELSE (IF loops[l].kind = "sos" THEN "sosWake" ELSE "morseWake")
     IN  /\ loops' = [loops EXCEPT ![l] = r.lp]
         /\ Commit(r.st, op, l, IF r.lp = NoLoop THEN loops[l] ELSE NoLoop)
         /\ UNCHANGED <<envVars, starts, otherVars>>

\* the timer of loop l's sleep fires, whatever time the other timers have
\* left: setTimeout(resolve, ms) promises no upper bound on the delay
Resume(l) ==
  /\ Alive(l)
  /\ RunLoop(l)

\* the timer of loop l's sleep fires when its ms milliseconds have passed
Wake(l) ==
  /\ Alive(l)
  /\ loops[l].rem = 0
  /\ RunLoop(l)

\* TickMs milliseconds pass; a timer that is due fires before time goes on
Tick ==
  /\ \E l \in LoopIds : Alive(l)
  /\ \A l \in LoopIds : Alive(l) => loops[l].rem > 0
  /\ loops' = [l \in LoopIds |->
                 IF Alive(l)
                 THEN [loops[l] EXCEPT
                         !.rem = @ - TickMs,
                         !.sinceStop = IF @ = -1 THEN -1
                                       ELSE IF @ >= MaxStopTicks * TickMs
                                       THEN MaxStopTicks * TickMs
                                       ELSE @ + TickMs]
                 ELSE loops[l]]
  /\ event' = [op |-> "tick", loop |-> 0, writes |-> <<>>, ended |-> NoLoop]
  /\ scope' = ScopeTick(scope)
  /\ UNCHANGED <<envVars, uiVars, starts, otherVars>>

(* ------------------------------------------------------------------------ *)
(* Environment: permission, preference, unmount                               *)
(* ------------------------------------------------------------------------ *)
\* useCameraPermissions delivers a new permission object, at any moment and
\* with any result (the first answer, the same answer again, a grant or a
\* revocation made in the system settings): the cleanup of the first effect
\* runs (lines 545-552), then the second effect (lines 562-566)
PermissionResult(p) ==
  /\ mounted
  /\ permission' = p
  /\ Commit(launchEffectState(cleanupState(Cur), launchWithFlashlightOn, p),
            "permission", 0, NoLoop)
  /\ loops' = MarkStopped(loops, {"sos", "morse"})
  /\ UNCHANGED <<launchWithFlashlightOn, mounted, starts, otherVars>>

\* the preference changes (loaded from storage or toggled in the settings):
\* the second effect runs (lines 562-566)
PreferenceChange ==
  /\ mounted
  /\ launchWithFlashlightOn' = ~launchWithFlashlightOn
  /\ Commit(launchEffectState(Cur, ~launchWithFlashlightOn, permission),
            "preference", 0, NoLoop)
  /\ UNCHANGED <<permission, mounted, loops, starts, otherVars>>

\* the component unmounts: the cleanup of the first effect runs
Unmount ==
  /\ mounted
  /\ mounted' = FALSE
  /\ Commit(cleanupState(Cur), "unmount", 0, NoLoop)
  /\ loops' = MarkStopped(loops, {"sos", "morse"})
  /\ UNCHANGED <<permission, launchWithFlashlightOn, starts, otherVars>>

\* timers fire in any order
Next ==
  \/ toggleFlashlight
  \/ startSOS
  \/ stopSOS
  \/ \E text \in InputTexts : transmitMorseWithText(text)
  \/ stopMorse
  \/ \E l \in LoopIds : Resume(l)
  \/ \E p \in {"denied", "granted"} : PermissionResult(p)
  \/ PreferenceChange
  \/ Unmount

Spec == Init /\ [][Next]_vars

\* timers fire exactly when they are due
NextTimed ==
  \/ toggleFlashlight
  \/ startSOS
  \/ stopSOS
  \/ \E text \in InputTexts : transmitMorseWithText(text)
  \/ stopMorse
  \/ \E l \in LoopIds : Wake(l)
  \/ Tick
  \/ \E p \in {"denied", "granted"} : PermissionResult(p)
  \/ PreferenceChange
  \/ Unmount

SpecTimed == Init /\ [][NextTimed]_vars

TypeOK ==
  /\ permission \in {"null", "denied", "granted"}
  /\ launchWithFlashlightOn \in BOOLEAN
  /\ mounted \in BOOLEAN
  /\ isFlashlightOn \in BOOLEAN
  /\ sosMode \in BOOLEAN
  /\ isTransmitting \in BOOLEAN
  /\ sosActiveRef \in BOOLEAN
  /\ morseActiveRef \in BOOLEAN
  /\ \A l \in LoopIds :
       /\ loops[l].kind \in {"none", "sos", "morse"}
       /\ loops[l].rem \in 0..PAUSE_WORDS
       /\ loops[l].sinceStop \in -1..(MaxStopTicks * TickMs)


(* ------------------------------------------------------------------------ *)
(* Properties                                                                 *)
(* ------------------------------------------------------------------------ *)
Idle == ~sosMode /\ ~isTransmitting

\* the cancellation flag the loop in slot l checks
RefOf(l) == IF loops[l].kind = "sos" THEN sosActiveRef ELSE morseActiveRef

\* loops that are alive and will go on executing segments
ActiveLoops == {l \in LoopIds : Alive(l) /\ RefOf(l)}

\* C1: for every sequence of start and stop calls at most one pulse loop is
\* alive and executing segments.
C1_AtMostOneLoop == Cardinality(ActiveLoops) <= 1

\* C2: a start call made while the other mode is active clears the other
\* mode's cancellation flag and UI flag and sets the output OFF before the
\* new plan's first pulse sets it ON.
C2_ForceStopFirst ==
  [][/\ (event'.op = "transmitMorseWithText" /\ event'.loop # 0 /\ sosMode) =>
          /\ ~sosMode' /\ ~sosActiveRef'
          /\ Len(event'.writes) >= 1
          /\ event'.writes[1] = [by |-> "stopSOS", loop |-> 0, val |-> FALSE]
     /\ (event'.op = "startSOS" /\ event'.loop # 0 /\ isTransmitting) =>
          /\ ~isTransmitting' /\ ~morseActiveRef'
          /\ Len(event'.writes) >= 1
          /\ event'.writes[1] = [by |-> "stopMorse", loop |-> 0, val |-> FALSE]
    ]_vars

\* a Morse start has force-stopped a running SOS and begun its first pulse
C2_Witness ==
  /\ event.op = "transmitMorseWithText"
  /\ Len(event.writes) = 2
  /\ event.writes[1].by = "stopSOS" /\ ~event.writes[1].val
  /\ event.writes[2].by = "loop" /\ event.writes[2].val
  /\ isFlashlightOn

\* C3: the UI flags of the two modes are never both set, and the two
\* cancellation flags are never both set.
C3_OneMode ==
  /\ ~(sosMode /\ isTransmitting)
  /\ ~(sosActiveRef /\ morseActiveRef)

\* an SOS start has preempted a running Morse transmission whose loop is
\* still suspended
C3_Witness ==
  /\ event.op = "startSOS"
  /\ sosMode /\ sosActiveRef
  /\ Len(event.writes) = 2 /\ event.writes[1].by = "stopMorse"
  /\ ~isTransmitting /\ ~morseActiveRef
  /\ \E l \in LoopIds : loops[l].kind = "morse"


LoopOps == {"sosWake", "morseWake", "sosExit", "morseExit"}

\* the mode whose UI flag is set
RunningKind == IF sosMode THEN "sos" ELSE IF isTransmitting THEN "morse" ELSE "none"

\* C4: the output flag has one writer at a time: while a transmission runs
\* only its own pulse loop (or a start, stop or teardown) changes
\* isFlashlightOn, and while the state is Idle no pulse loop changes it.
C4_SingleWriter ==
  [][isFlashlightOn' # isFlashlightOn =>
       IF Idle
       THEN event'.op \notin LoopOps
       ELSE /\ event'.op \notin {"toggleFlashlight", "preference"}
            /\ event'.op \in LoopOps =>
                 /\ loops[event'.loop].kind = RunningKind
                 /\ loops[event'.loop].sinceStop = -1
    ]_vars

\* C5: a stop called during a transmission leaves the output OFF, and the
\* loop that was in progress never sets it ON again.
C5_StoppedLoopStaysOff ==
  [][/\ event'.op \in {"stopSOS", "stopMorse"} => ~isFlashlightOn'
     /\ (event'.op \in LoopOps /\ loops[event'.loop].sinceStop >= 0) =>
          \A k \in 1..Len(event'.writes) : ~event'.writes[k].val
    ]_vars

\* the longest segment of each mode, as the claim gives it
LatencyBound(kind) == IF kind = "sos" THEN 800 ELSE 600

\* C6: a loop that was stopped has exited, with the output OFF and its UI flag
\* false, at most 800 ms (SOS) or 600 ms (Morse) after the stop: no stopped
\* loop is still alive later than that.
C6_CancellationLatency ==
  \A l \in LoopIds :
    (Alive(l) /\ loops[l].sinceStop >= 0) =>
       loops[l].sinceStop <= LatencyBound(loops[l].kind)

NoLoopAlive == \A l \in LoopIds : ~Alive(l)

\* C7: stopSOS or stopMorse called when the transmitter is Idle changes no
\* state variable.
C7_IdleStopNoOp ==
  [][(event'.op \in {"stopSOS", "stopMorse"} /\ Idle /\ NoLoopAlive) =>
       UNCHANGED <<uiVars, loops, envVars>>
    ]_vars

\* C8: toggleFlashlight changes nothing while the transmitter is not Idle;
\* when Idle with permission granted it inverts isFlashlightOn and changes
\* nothing else.
C8_ToggleGuard ==
  [][event'.op = "toggleFlashlight" =>
       /\ ~Idle => UNCHANGED <<uiVars, loops, envVars>>
       /\ (Idle /\ permission = "granted") =>
            /\ isFlashlightOn' = ~isFlashlightOn
            /\ UNCHANGED <<sosMode, isTransmitting, currentChar, sosActiveRef,
                           morseActiveRef, loops, envVars>>
    ]_vars

\* a toggle was rejected while a pulse loop keeps the output ON
C8_Witness ==
  /\ event.op = "toggleFlashlight"
  /\ event.writes = <<>>
  /\ ~Idle
  /\ isFlashlightOn
  /\ \E l \in LoopIds : Alive(l) /\ loops[l].at = "flash"

\* number of ON segments of the plan of a text
RECURSIVE SymbolCount(_)
SymbolCount(chars) ==
  IF chars = <<>> THEN 0
  ELSE (IF Head(chars) \in DOMAIN MORSE_CODE THEN Len(MORSE_CODE[Head(chars)])
        ELSE 0) + SymbolCount(Tail(chars))

RECURSIVE PlanPulses(_)
PlanPulses(words) ==
  IF words = <<>> THEN 0
  ELSE SymbolCount(Head(words)) + PlanPulses(Tail(words))

\* C9: a Morse transmission that is not cancelled after its start emits every
\* symbol of its plan.
C9_UncancelledCompletes ==
  (event.op = "morseExit" /\ ~event.ended.cancelled) =>
     event.ended.pulses = PlanPulses(event.ended.words)


\* every timer that was set fires
SpecFair == Spec /\ \A l \in LoopIds : WF_vars(Resume(l))

\* C10: every Morse transmission terminates, and when it ends the output is
\* OFF, isTransmitting is false and morseActiveRef is false.
C10_MorseTerminates ==
  /\ \A l \in LoopIds : (loops[l].kind = "morse") ~> (loops[l].kind # "morse")
  /\ [](event.op = "morseExit" =>
          ~isFlashlightOn /\ ~isTransmitting /\ ~morseActiveRef)

\* a Morse transmission started while SOS was running has emitted its whole
\* plan and ended
C10_Witness ==
  /\ event.op = "morseExit"
  /\ event.ended.overSOS
  /\ ~event.ended.cancelled
  /\ event.ended.pulses = PlanPulses(event.ended.words)
  /\ Idle /\ ~isFlashlightOn


(* ------------------------------------------------------------------------ *)
(* One transmission that nothing interrupts, watched by the oscilloscope      *)
(* ------------------------------------------------------------------------ *)
\* the text is empty or has white space only
Blank(text) == \A k \in 1..Len(text) : IsSpace(text[k])

\* the texts handed to transmitMorseWithText: "SOS", "A1!B", "an e", "e!",
\* a text of sharp s, carriage return, e acute and dotless i (upper case "SS"
\* and, after the separator, E acute and "I"), the empty text, a text of a
\* space and a tab, a text of a carriage return, U+2028 and U+00A0, and a
\* text of the Deseret letter U+10428 (a surrogate pair), U+019B and e
PlanTexts ==
  { <<"\\uD801", "\\uDC28", "ƛ", "e">>,
    <<"S", "O", "S">>,
    <<"A", "1", "!", "B">>,
    <<"a", "n", " ", "e">>,
    <<"e", "!">>,
    <<"ß", "\r", "é", "\\u0131">>,
    <<>>,
    <<" ", "\t">>,
    <<"\r", "\\u2028", " ">> }

InitSolo ==
  InitFlashlight /\ scope = ScopeIdle /\ InitCompass /\ InitLevel /\ InitPrefs

\* permission objects arrive while no loop runs, one transmission is started
\* and runs undisturbed, its timers fire when they are due; a blank text may
\* be handed in at any moment
NextSolo ==
  \/ \E p \in {"denied", "granted"} :
       (\A l \in LoopIds : ~Alive(l)) /\ PermissionResult(p)
  \/ starts = 0 /\ startSOS
  \/ \E text \in PlanTexts :
       (starts = 0 \/ Blank(text)) /\ transmitMorseWithText(text)
  \/ \E l \in LoopIds : Wake(l)
  \/ Tick

SpecSolo == InitSolo /\ [][NextSolo]_vars

On(ms) == [on |-> TRUE, ms |-> ms]
Off(ms) == [on |-> FALSE, ms |-> ms]

\* the recorded segments without a last segment that has not lasted yet
Recorded == 
  IF scope.segs[Len(scope.segs)].ms = 0
  THEN SubSeq(scope.segs, 1, Len(scope.segs) - 1)
  ELSE scope.segs

\* the cycle as the claim states it
SOSCycle ==
  << On(200), Off(200), On(200), Off(200), On(200), Off(400),
     On(600), Off(200), On(600), Off(200), On(600), Off(400),
     On(200), Off(200), On(200), Off(200), On(200), Off(800) >>

CycleAt(k) == SOSCycle[((k - 1) % Len(SOSCycle)) + 1]

\* C11: an uninterrupted SOS transmission drives the output through ON 200,
\* OFF 200, ON 200, OFF 200, ON 200, OFF 400, ON 600, OFF 200, ON 600, OFF 200,
\* ON 600, OFF 400, ON 200, OFF 200, ON 200, OFF 200, ON 200, OFF 800 and then
\* through the same cycle again: every finished segment is the cycle's, and
\* the segment in progress has the cycle's level and not more than its length.
C11_SOSCycle ==
  sosMode =>
    \A k \in 1..Len(scope.segs) :
      IF k < Len(scope.segs) \/ ~scope.attached
      THEN scope.segs[k] = CycleAt(k)
      ELSE /\ scope.segs[k].on = CycleAt(k).on
           /\ scope.segs[k].ms <= CycleAt(k).ms

\* two whole cycles were recorded and the third has begun
C11_Witness ==
  /\ sosMode
  /\ Len(scope.segs) = 2 * Len(SOSCycle) + 1
  /\ scope.segs[2 * Len(SOSCycle)] = Off(800)
  /\ scope.segs[Len(SOSCycle)] = Off(800)
  /\ isFlashlightOn

(* ------------------------------------------------------------------------ *)
(* The plan of a text, built from the timing rules as the claims state them  *)
(* ------------------------------------------------------------------------ *)
\* two runs of segments one after the other; two segments of the same level
\* that meet are one segment
Join(a, b) ==
  IF a = <<>> THEN b
  ELSE IF b = <<>> THEN a
  ELSE IF a[Len(a)].on = b[1].on
       THEN SubSeq(a, 1, Len(a) - 1)
              \o <<[on |-> b[1].on, ms |-> a[Len(a)].ms + b[1].ms]>>
              \o Tail(b)
       ELSE a \o b

\* ON for T per dot and 3T per dash, OFF for T between the symbols of a letter
RECURSIVE LetterPlan(_)
LetterPlan(pattern) ==
  IF pattern = <<>> THEN <<>>
  ELSE LET symbol == On(IF Head(pattern) = "." THEN T ELSE 3 * T)
       IN  IF Len(pattern) = 1 THEN <<symbol>>
           ELSE <<symbol, Off(T)>> \o LetterPlan(Tail(pattern))

\* a character absent from the table is silent for one letter gap
CharPlan(c) ==
  IF c \in DOMAIN MORSE_CODE THEN LetterPlan(MORSE_CODE[c]) ELSE <<Off(3 * T)>>

\* OFF for 3T between the letters of a word
RECURSIVE WordPlan(_)
WordPlan(chars) ==
  IF chars = <<>> THEN <<>>
  ELSE IF Len(chars) = 1 THEN CharPlan(chars[1])
  ELSE IF Head(chars) \in DOMAIN MORSE_CODE
       THEN Join(Join(CharPlan(Head(chars)), <<Off(3 * T)>>),
                 WordPlan(Tail(chars)))
       ELSE Join(CharPlan(Head(chars)), WordPlan(Tail(chars)))

\* OFF for 7T between the words
RECURSIVE TextPlan(_)
TextPlan(words) ==
  IF words = <<>> THEN <<>>
  ELSE IF Len(words) = 1 THEN WordPlan(words[1])
  ELSE Join(Join(WordPlan(Head(words)), <<Off(7 * T)>>), TextPlan(Tail(words)))

AllInTable(words) ==
  \A w \in 1..Len(words) :
    \A c \in 1..Len(words[w]) : words[w][c] \in DOMAIN MORSE_CODE

\* segs is the beginning of plan: its finished segments are the plan's, its
\* last one has the plan's level and not more than its length
Follows(segs, plan) ==
  /\ Len(segs) <= Len(plan)
  /\ \A k \in 1..Len(segs) :
       IF k < Len(segs) THEN segs[k] = plan[k]
       ELSE segs[k].on = plan[k].on /\ segs[k].ms <= plan[k].ms

\* C12: for a text whose characters are all in the table the Morse loop emits
\* ON for T per dot and 3T per dash, OFF for T between the symbols of a
\* letter, 3T between the letters of a word and 7T between words, in the
\* order of the text: the output follows the plan while the loop runs and is
\* the whole plan when it ends.
C12_MorseTiming ==
  /\ \A l \in LoopIds :
       (loops[l].kind = "morse" /\ AllInTable(loops[l].words)) =>
          Follows(Recorded, TextPlan(loops[l].words))
  /\ (event.op = "morseExit" /\ AllInTable(event.ended.words)) =>
       Recorded = TextPlan(event.ended.words)

\* "an e" was transmitted to its end
C12_Witness ==
  /\ event.op = "morseExit"
  /\ event.ended.words = << <<"A", "N">>, <<"E">> >>
  /\ Recorded = << On(200), Off(200), On(600), Off(600), On(600), Off(200),
                   On(200), Off(1400), On(200) >>

\* C13: no gap-between-letters pause follows the last character of a word,
\* no gap-between-words pause follows the last word, whether or not the last
\* character is in the table, and after the last character of the last word
\* the transmission ends without further waiting.
C13_NoPauseAfterLast ==
  /\ \A l \in LoopIds :
       loops[l].kind = "morse" =>
         /\ loops[l].at \in {"letters", "ignored"} =>
              loops[l].charIndex < Len(CharsOf(loops[l])) - 1
         /\ loops[l].at = "words" => loops[l].wordIndex < Len(loops[l].words) - 1
  /\ (event.op = "morseExit" /\ event.ended.pulses > 0) =>
       Recorded[Len(Recorded)].on

\* C14: a character absent from the table never turns the output ON, takes
\* one gap-between-letters pause (600 ms) and does not end the transmission:
\* the output follows the plan in which that character is 600 ms of silence,
\* and every symbol of the later characters is emitted.
C14_UnknownCharSilent ==
  /\ \A l \in LoopIds :
       loops[l].kind = "morse" =>
         /\ Follows(Recorded, TextPlan(loops[l].words))
         /\ loops[l].at = "ignored" =>
              /\ ~isFlashlightOn
              /\ loops[l].rem <= 600
              /\ scope.segs[Len(scope.segs)].ms + loops[l].rem >= 600
  /\ event.op = "morseExit" =>
       /\ Recorded = TextPlan(event.ended.words)
       /\ event.ended.pulses = PlanPulses(event.ended.words)

\* "A1!B" was transmitted to its end: A, 1 and B were emitted, ! was silent
C14_Witness ==
  /\ event.op = "morseExit"
  /\ event.ended.words = << <<"A", "1", "!", "B">> >>
  /\ event.ended.pulses = 11
  /\ Recorded = << On(200), Off(200), On(600), Off(600),
                   On(200), Off(200), On(600), Off(200), On(600), Off(200),
                   On(600), Off(200), On(600), Off(1200),
                   On(600), Off(200), On(200), Off(200), On(200), Off(200),
                   On(200) >>

\* C15: transmitMorseWithText called with an empty or whitespace-only text
\* changes no state at all: isTransmitting, morseActiveRef and isFlashlightOn
\* stay as they were and a running SOS transmission is not stopped.
C15_BlankTextNoOp ==
  [][\A text \in PlanTexts :
       (Blank(text) /\ transmitMorseWithText(text)) =>
          UNCHANGED <<uiVars, loops, starts, envVars>>
    ]_vars

\* a blank text was rejected while an SOS transmission keeps the output ON
C15_Witness ==
  /\ event.op = "transmitMorseWithText"
  /\ event.loop = 0 /\ event.writes = <<>>
  /\ permission = "granted"
  /\ sosMode /\ sosActiveRef /\ isFlashlightOn
  /\ \E l \in LoopIds : loops[l].kind = "sos" /\ loops[l].at = "flash"

\* C16: the table maps the 36 characters A-Z and 0-9 to 36 pairwise distinct
\* non-empty patterns of dots and dashes, and the text "SOS" is emitted as
\* ... --- ... with 3T between the letters.
C16_TableAndSOS ==
  /\ DOMAIN MORSE_CODE =
       {UpperCase[k] : k \in 1..Len(UpperCase)}
         \cup {"0", "1", "2", "3", "4", "5", "6", "7", "8", "9"}
  /\ Cardinality(DOMAIN MORSE_CODE) = 36
  /\ \A c \in DOMAIN MORSE_CODE :
       /\ MORSE_CODE[c] # <<>>
       /\ \A k \in 1..Len(MORSE_CODE[c]) : MORSE_CODE[c][k] \in {".", "-"}
  /\ \A c, d \in DOMAIN MORSE_CODE : c # d => MORSE_CODE[c] # MORSE_CODE[d]
  /\ (event.op = "morseExit" /\ event.ended.words = << <<"S", "O", "S">> >>) =>
       Recorded = << On(200), Off(200), On(200), Off(200), On(200), Off(600),
                     On(600), Off(200), On(600), Off(200), On(600), Off(600),
                     On(200), Off(200), On(200), Off(200), On(200) >>

\* "SOS" was transmitted to its end, ending on the third dot of the last S
C16_Witness ==
  /\ event.op = "morseExit"
  /\ event.ended.words = << <<"S", "O", "S">> >>
  /\ event.ended.pulses = 9
  /\ Len(Recorded) = 17
  /\ Idle /\ ~isFlashlightOn

\* the code that runs when the timer of the loop's await fires begins by
\* reading the cancellation flag
ChecksFlag(lp) ==
  IF lp.kind = "sos" THEN ~(lp.at = "flash" /\ lp.i < 2)
  ELSE \/ lp.at \in {"parts", "letters", "words"}
       \/ lp.at = "ignored" /\ lp.charIndex < Len(CharsOf(lp)) - 1

\* C17: after the teardown of the component both cancellation flags are
\* false and the output is OFF; the running pulse loop never turns the output
\* ON again, and it exits at its next check of the flag.
C17_TeardownStops ==
  /\ [](~mounted => ~sosActiveRef /\ ~morseActiveRef /\ ~isFlashlightOn)
  /\ [][(~mounted /\ event'.op \in LoopOps) =>
          /\ \A k \in 1..Len(event'.writes) : ~event'.writes[k].val
          /\ ChecksFlag(loops[event'.loop]) =>
               loops'[event'.loop].kind = "none"
       ]_vars


(* ------------------------------------------------------------------------ *)
(* CompassScreen: the Magnetometer listener (lines 90-161)                    *)
(* ------------------------------------------------------------------------ *)
\* the values of Math.atan2(-y, x) * (180 / Math.PI) of the samples, whole
\* degrees of [-180, 180]
RawAngles == {-180, -170, -90, -10, -6, -5, 0, 5, 10, 90, 170, 180}

\* the milliseconds between a sample and the one before it
SampleGaps == {125, 500}

\* a % b of JavaScript: the result has the sign of a
JsRem(a, b) == IF a >= 0 THEN a % b ELSE -((-a) % b)

\* the faulty variant of Normalise: the angle is not shifted by 360
Normalise_NoShift(angle) == JsRem(angle, 360)

\* line 99
Normalise(angle) == JsRem(angle + 360, 360)

\* the faulty variant of ShortestDelta: the difference as it is
ShortestDelta_Raw(angle, previousAngle) == angle - previousAngle

\* the faulty variant of ShortestDelta: shifted by half a turn
ShortestDelta_HalfTurn(angle, previousAngle) ==
  LET delta == angle - previousAngle
  IN  IF delta > 180 THEN delta - 180
      ELSE IF delta < -180 THEN delta + 180
      ELSE delta

\* faulty variant of ShortestDelta: a difference beyond half a turn is cut to
\* half a turn
ShortestDelta_Clamped(angle, previousAngle) ==
  LET delta == angle - previousAngle
  IN  IF delta > 180 THEN 180 ELSE IF delta < -180 THEN -180 ELSE delta

\* lines 141-149
ShortestDelta(angle, previousAngle) ==
  LET delta == angle - previousAngle
  IN  IF delta > 180 THEN delta - 360
      ELSE IF delta < -180 THEN delta + 360
      ELSE delta

Min(a, b) == IF a <= b THEN a ELSE b

\* faulty variant of MagnetometerListener: the first sample leaves
\* cumulativeRotationRef as it was
MagnetometerListener_FirstKeepsZero(raw, dt) ==
  LET angle == Normalise(raw)
      textAge == Min(textUpdateAge + dt, TEXT_UPDATE_INTERVAL)
      hapticAge == Min(northHapticAge + dt, HAPTIC_DEBOUNCE)
      isNearNorth == angle <= NORTH_TOLERANCE \/ angle >= 360 - NORTH_TOLERANCE
      haptic == isNearNorth /\ hapticAge >= HAPTIC_DEBOUNCE
      delta == ShortestDelta(angle, previousAngleRef)
  IN  /\ heading' = angle
      /\ IF textAge >= TEXT_UPDATE_INTERVAL
         THEN displayedHeading' = angle /\ textUpdateAge' = 0
         ELSE displayedHeading' = displayedHeading /\ textUpdateAge' = textAge
      /\ northHapticAge' = IF haptic THEN 0 ELSE hapticAge
      /\ IF isFirstUpdate
         THEN /\ previousAngleRef' = angle
              /\ cumulativeRotationRef' = cumulativeRotationRef
              /\ isFirstUpdate' = FALSE
              /\ sample' = [raw |-> raw, first |-> TRUE, from |-> previousAngleRef,
                            delta |-> 0, haptic |-> haptic]
         ELSE /\ cumulativeRotationRef + delta \in -MaxRotation..MaxRotation
              /\ cumulativeRotationRef' = cumulativeRotationRef + delta
              /\ previousAngleRef' = angle
              /\ isFirstUpdate' = FALSE
              /\ sample' = [raw |-> raw, first |-> FALSE, from |-> previousAngleRef,
                            delta |-> delta, haptic |-> haptic]
      /\ compassSub.listening
      /\ UNCHANGED <<compassSub, flashVars, levelVars, prefsVars>>

\* The effect of lines 63-172 runs after the first render: subscribe() adds
\* the listener and calls setSubscription(sub).  The cleanup function the
\* effect returns is a closure of that render: the subscription it reads is
\* the state of that render.
CompassMount ==
  /\ compassSub = NoSubscription
  /\ compassSub' = [mounted |-> TRUE, subscription |-> "sub",
                    closure |-> compassSub.subscription, listening |-> TRUE]
  /\ isFirstUpdate' = TRUE
  /\ UNCHANGED <<heading, displayedHeading, previousAngleRef,
                 cumulativeRotationRef, textUpdateAge, northHapticAge, sample>>
  /\ UNCHANGED <<flashVars, levelVars, prefsVars>>

\* the screen unmounts: the cleanup of lines 167-171 runs
CompassUnmount ==
  /\ compassSub.mounted
  /\ compassSub.closure # "none"
  /\ compassSub' = [compassSub EXCEPT
                      !.mounted = FALSE,
                      !.listening = IF compassSub.closure # "null" THEN FALSE
                                    ELSE @]
  /\ UNCHANGED <<heading, displayedHeading, previousAngleRef,
                 cumulativeRotationRef, textUpdateAge, northHapticAge,
                 isFirstUpdate, sample>>
  /\ UNCHANGED <<flashVars, levelVars, prefsVars>>

\* the listener handles a sample whose angle is raw, dt milliseconds after
\* the sample before it (Haptics is the module loaded at lines 7-12); heading
\* and displayedHeading are the values last handed to their setters
MagnetometerListener(raw, dt) ==
  LET angle == Normalise(raw)
      textAge == Min(textUpdateAge + dt, TEXT_UPDATE_INTERVAL)
      hapticAge == Min(northHapticAge + dt, HAPTIC_DEBOUNCE)
      isNearNorth == angle <= NORTH_TOLERANCE \/ angle >= 360 - NORTH_TOLERANCE
      haptic == isNearNorth /\ hapticAge >= HAPTIC_DEBOUNCE
      delta == ShortestDelta(angle, previousAngleRef)
  IN  /\ heading' = angle
      /\ IF textAge >= TEXT_UPDATE_INTERVAL
         THEN displayedHeading' = angle /\ textUpdateAge' = 0
         ELSE displayedHeading' = displayedHeading /\ textUpdateAge' = textAge
      /\ northHapticAge' = IF haptic THEN 0 ELSE hapticAge
      /\ IF isFirstUpdate
         THEN /\ previousAngleRef' = angle
              /\ cumulativeRotationRef' = angle
              /\ isFirstUpdate' = FALSE
              /\ sample' = [raw |-> raw, first |-> TRUE, from |-> previousAngleRef,
                            delta |-> 0, haptic |-> haptic]
         ELSE /\ cumulativeRotationRef + delta \in -MaxRotation..MaxRotation
              /\ cumulativeRotationRef' = cumulativeRotationRef + delta
              /\ previousAngleRef' = angle
              /\ isFirstUpdate' = FALSE
              /\ sample' = [raw |-> raw, first |-> FALSE, from |-> previousAngleRef,
                            delta |-> delta, haptic |-> haptic]
      /\ compassSub.listening
      /\ UNCHANGED <<compassSub, flashVars, levelVars, prefsVars>>

NextCompass ==
  \/ CompassMount
  \/ \E raw \in RawAngles, dt \in SampleGaps : MagnetometerListener(raw, dt)

SpecCompass == Init /\ [][NextCompass]_vars

\* C18: for every pair of consecutive headings of [0, 360) the delta added to
\* cumulativeRotationRef lies in [-180, 180].
C18_DeltaRange ==
  [][~isFirstUpdate =>
       /\ sample'.delta = cumulativeRotationRef' - cumulativeRotationRef
       /\ cumulativeRotationRef' - cumulativeRotationRef >= -180
       /\ cumulativeRotationRef' - cumulativeRotationRef <= 180
    ]_vars

\* heading 0 was followed by heading 190: the difference 190 became -170
C18_Witness ==
  /\ ~sample.first
  /\ sample.from = 0 /\ heading = 190
  /\ sample.delta = -170
  /\ cumulativeRotationRef = -170

\* C19: the delta is the signed shortest rotation from the previous heading
\* to the new one: it is congruent to their difference modulo 360, 350 then
\* 10 gives +20 and 10 then 350 gives -20.
C19_ShortestRotation ==
  [][~isFirstUpdate =>
       LET delta == cumulativeRotationRef' - cumulativeRotationRef
       IN  /\ (delta - (heading' - previousAngleRef)) % 360 = 0
           /\ (previousAngleRef = 350 /\ heading' = 10) => delta = 20
           /\ (previousAngleRef = 10 /\ heading' = 350) => delta = -20
           /\ \A k \in {-1, 1} :
                (IF delta < 0 THEN -delta ELSE delta)
                  <= (IF delta + 360 * k < 0 THEN -(delta + 360 * k)
                      ELSE delta + 360 * k)
    ]_vars

\* heading 350 was followed by heading 10 and the dial went on to 370
C19_Witness ==
  /\ ~sample.first
  /\ sample.from = 350 /\ heading = 10
  /\ sample.delta = 20
  /\ cumulativeRotationRef = 370

\* C20: the heading of every sample, (angle + 360) mod 360 of an angle of
\* [-180, 180], lies in [0, 360): it is never negative and never 360.
C20_HeadingRange ==
  /\ sample.raw >= -180 /\ sample.raw <= 180
  /\ heading >= 0 /\ heading < 360
  /\ ~isFirstUpdate => (heading - sample.raw) % 360 = 0

\* the angles -180 and -10 gave the headings 180 and 350
C20_Witness ==
  /\ sample.raw = -10 /\ heading = 350
  /\ sample.from = 180 /\ previousAngleRef = 350


(* ------------------------------------------------------------------------ *)
(* CompassScreen: getDirection (lines 180-184)                                *)
(* ------------------------------------------------------------------------ *)
directions == <<"N", "NE", "E", "SE", "S", "SW", "W", "NW">>

\* Math.round(n / d) for n >= 0 and d > 0: the nearest whole number, a half
\* goes upwards
Round(n, d) == (2 * n + d) \div (2 * d)

\* the faulty variant of DirectionIndex: the quotient is cut, not rounded
DirectionIndex_Floor(num, den) == (num \div (45 * den)) % 8

\* line 182 for a heading of num / den degrees
DirectionIndex(num, den) == Round(num, 45 * den) % 8

\* getDirection for a heading of whole degrees
getDirection(degrees) == directions[DirectionIndex(degrees, 1) + 1]

\* every whole angle of [-180, 180]
DialAngles == -180..180

\* the screen mounts and handles its first sample, of any angle
NextDial ==
  \/ CompassMount
  \/ \E raw \in DialAngles, dt \in SampleGaps :
       isFirstUpdate /\ MagnetometerListener(raw, dt)

SpecDial == Init /\ [][NextDial]_vars

\* the sector of 45 degrees around k * 45 that holds the heading of
\* half / 2 degrees, k = 8 being north again
Sector(half) == CHOOSE k \in 0..8 : 90 * k - 45 <= half /\ half < 90 * k + 45

\* C21: for every heading of [0, 360) getDirection returns
\* table[round(h / 45) mod 8]: the index is in 0..7, it names the sector of
\* the heading, and the headings of [337.5, 360) give N like those of
\* [0, 22.5).
C21_Direction ==
  /\ \A half \in 0..719 :
       /\ DirectionIndex(half, 2) \in 0..7
       /\ DirectionIndex(half, 2) = Sector(half) % 8
       /\ (half >= 675 \/ half < 45) <=> DirectionIndex(half, 2) = 0
  /\ displayedHeading \in 0..359
  /\ getDirection(displayedHeading) = directions[(Sector(2 * displayedHeading) % 8) + 1]
  /\ displayedHeading >= 338 => getDirection(displayedHeading) = "N"

\* the heading 338 is shown as N
C21_Witness ==
  /\ ~isFirstUpdate
  /\ sample.raw = -22
  /\ displayedHeading = 338
  /\ getDirection(displayedHeading) = "N"


(* ------------------------------------------------------------------------ *)
(* LevelScreen (src/src/screens/LevelScreen.tsx)                              *)
(*                                                                            *)
(* Angles are counted in tenths of a degree.  The listener's inputs are the  *)
(* two angles lines 76-77 compute from the accelerometer sample; the bubble  *)
(* animation (lines 94-112) changes no state the text or isLevel reads and   *)
(* is left out.  TEXT_UPDATE_INTERVAL of line 40 equals the one of the       *)
(* compass screen.                                                            *)
(* ------------------------------------------------------------------------ *)
\* tenths in a degree
PerDegree == 10

Abs(a) == IF a >= 0 THEN a ELSE -a

\* angles the listener computes: around the threshold of 2 degrees either side
LevelAngles == {-21, -20, -19, 0, 19, 20, 21}

\* the effect of lines 51-125 runs after the first render, as CompassMount
LevelMount ==
  /\ levelSub = NoSubscription
  /\ levelSub' = [mounted |-> TRUE, subscription |-> "sub",
                  closure |-> levelSub.subscription, listening |-> TRUE]
  /\ UNCHANGED <<xAngle, yAngle, displayedXAngle, displayedYAngle, levelTextAge>>
  /\ UNCHANGED <<flashVars, compassVars, prefsVars>>

\* the screen unmounts: the cleanup of lines 119-123 runs
LevelUnmount ==
  /\ levelSub.mounted
  /\ levelSub.closure # "none"
  /\ levelSub' = [levelSub EXCEPT
                    !.mounted = FALSE,
                    !.listening = IF levelSub.closure # "null" THEN FALSE
                                  ELSE @]
  /\ UNCHANGED <<xAngle, yAngle, displayedXAngle, displayedYAngle, levelTextAge>>
  /\ UNCHANGED <<flashVars, compassVars, prefsVars>>

\* the listener (lines 72-112) handles a sample whose angles are xAngleDeg
\* and yAngleDeg, dt milliseconds after the sample before it
AccelerometerListener(xAngleDeg, yAngleDeg, dt) ==
  LET age == Min(levelTextAge + dt, TEXT_UPDATE_INTERVAL)
  IN  /\ levelSub.listening
      /\ xAngle' = xAngleDeg
      /\ yAngle' = yAngleDeg
      /\ IF age >= TEXT_UPDATE_INTERVAL
         THEN /\ displayedXAngle' = xAngleDeg
              /\ displayedYAngle' = yAngleDeg
              /\ levelTextAge' = 0
         ELSE /\ UNCHANGED <<displayedXAngle, displayedYAngle>>
              /\ levelTextAge' = age
      /\ UNCHANGED <<levelSub, flashVars, compassVars, prefsVars>>

\* the faulty variant of isLevel: the threshold itself counts as level
isLevel_Inclusive ==
  Abs(xAngle) <= 2 * PerDegree /\ Abs(yAngle) <= 2 * PerDegree

\* line 134
isLevel == Abs(xAngle) < 2 * PerDegree /\ Abs(yAngle) < 2 * PerDegree

NextLevel ==
  \/ LevelMount
  \/ \E xAngleDeg \in LevelAngles, yAngleDeg \in LevelAngles, dt \in SampleGaps :
       AccelerometerListener(xAngleDeg, yAngleDeg, dt)
  \/ LevelUnmount

SpecLevel == Init /\ [][NextLevel]_vars

\* an angle strictly within 2 degrees of zero
Within2(a) == -2 * PerDegree < a /\ a < 2 * PerDegree

\* C22: after every sample isLevel is true exactly when both angles of that
\* sample are strictly within 2 degrees, whatever the throttled text shows:
\* (1.9, 1.9) is level, (2.1, 0) and (2, 0) are not.
C22_LevelStrict ==
  [][levelSub' = levelSub =>
       \E xAngleDeg \in LevelAngles, yAngleDeg \in LevelAngles, dt \in SampleGaps :
         /\ AccelerometerListener(xAngleDeg, yAngleDeg, dt)
         /\ isLevel' <=> (Within2(xAngleDeg) /\ Within2(yAngleDeg))
         /\ (xAngleDeg = 19 /\ yAngleDeg = 19) => isLevel'
         /\ (xAngleDeg \in {20, 21} /\ yAngleDeg = 0) => ~isLevel']_vars

\* the latest sample is (1.9, 1.9) and level while the text still shows the
\* sample (2.1, 2.1) before it
C22_Witness ==
  /\ xAngle = 19
  /\ yAngle = 19
  /\ displayedXAngle = 21
  /\ displayedYAngle = 21
  /\ levelTextAge > 0
  /\ isLevel


\* C23: a pulse loop reads its cancellation flag before every segment, gaps
\* included: the code woken from the wait of a loop that was stopped begins
\* no further wait, the loop exits.
C23_NoWaitAfterStop ==
  [][(event'.op \in LoopOps /\ loops[event'.loop].sinceStop >= 0) =>
       loops'[event'.loop].kind = "none"
    ]_vars


(* ------------------------------------------------------------------------ *)
(* The SOS loop with everything that can end it                               *)
(* ------------------------------------------------------------------------ *)
\* the text of the Morse transmission that is started over a running SOS
OverSOSTexts == { <<"E">> }

NextSOS ==
  \/ \E p \in {"denied", "granted"} : PermissionResult(p)
  \/ startSOS
  \/ stopSOS
  \/ \E text \in OverSOSTexts : sosMode /\ transmitMorseWithText(text)
  \/ Unmount
  \/ \E l \in LoopIds : Wake(l)
  \/ Tick

SpecSOS == Init /\ [][NextSOS]_vars

\* C24: the SOS loop never ends on its own.  It exits, setting sosMode
\* false, only when sosActiveRef is false, after a stopSOS, a start of Morse
\* or a teardown that came after its start; a loop that none of them has
\* stopped is still running after every step, pattern after pattern.
C24_SOSRunsUntilStopped ==
  [][/\ event'.op = "sosExit" =>
          /\ ~sosActiveRef
          /\ event'.ended.kind = "sos"
          /\ event'.ended.cancelled
          /\ event'.ended.sinceStop >= 0
          /\ ~sosMode'
     /\ \A l \in LoopIds :
          (loops[l].kind = "sos" /\ ~loops[l].cancelled) =>
             /\ loops'[l].kind = "sos"
             /\ sosActiveRef /\ sosMode
    ]_vars

\* an SOS loop that nothing has stopped was woken from the pause after a
\* whole pattern and flashes the first dot of the next
C24_Witness ==
  /\ event.op = "sosWake"
  /\ event.loop \in LoopIds
  /\ loops[event.loop].kind = "sos"
  /\ ~loops[event.loop].cancelled
  /\ loops[event.loop].at = "flash"
  /\ loops[event.loop].group = 0
  /\ loops[event.loop].i = 0
  /\ sosMode /\ sosActiveRef /\ isFlashlightOn


(* ------------------------------------------------------------------------ *)
(* The three entry points before and after the permission is granted          *)
(* ------------------------------------------------------------------------ *)
\* the handlers are called at any moment, with the permission pending,
\* denied or granted; one transmission is started
NextGate ==
  \/ \E p \in {"denied", "granted"} : PermissionResult(p)
  \/ toggleFlashlight
  \/ (permission # "granted" \/ starts = 0) /\ startSOS
  \/ \E text \in InputTexts :
       (permission # "granted" \/ starts = 0) /\ transmitMorseWithText(text)
  \/ \E l \in LoopIds : Wake(l)
  \/ Tick

SpecGate == Init /\ [][NextGate]_vars

GatedOps == {"toggleFlashlight", "startSOS", "transmitMorseWithText"}

\* C25: called while the camera permission is not granted, toggleFlashlight,
\* startSOS and transmitMorseWithText return without changing isFlashlightOn,
\* sosMode, isTransmitting or either cancellation flag; no loop is started
\* and nothing is written to the output.
C25_PermissionGate ==
  [][(permission # "granted" /\ event'.op \in GatedOps) =>
       /\ UNCHANGED <<isFlashlightOn, sosMode, isTransmitting,
                      sosActiveRef, morseActiveRef>>
       /\ UNCHANGED <<loops, starts, currentChar>>
       /\ event'.writes = <<>>
       /\ event'.loop = 0
    ]_vars

\* startSOS was called with the permission denied
C25_Witness ==
  /\ permission = "denied"
  /\ event.op = "startSOS"
  /\ event.loop = 0
  /\ ~sosMode /\ ~sosActiveRef /\ ~isFlashlightOn
  /\ \A l \in LoopIds : ~Alive(l)


(* ------------------------------------------------------------------------ *)
(* CompassScreen: the first sample, the accumulated rotation, the haptic      *)
(* ------------------------------------------------------------------------ *)
\* C26: the first sample after the subscription sets previousAngleRef and
\* cumulativeRotationRef to the heading and adds no delta; every later
\* sample adds its delta to cumulativeRotationRef, none sets it anew.
C26_FirstSample ==
  [][compassSub' = compassSub =>
       /\ ~isFirstUpdate'
       /\ isFirstUpdate =>
            /\ sample'.first
            /\ sample'.delta = 0
            /\ previousAngleRef' = heading'
            /\ cumulativeRotationRef' = heading'
       /\ ~isFirstUpdate =>
            /\ ~sample'.first
            /\ cumulativeRotationRef' =
                 cumulativeRotationRef + ShortestDelta(heading', previousAngleRef)
    ]_vars

\* after a first sample of 90 degrees and a whole turn clockwise the
\* accumulated rotation is 450, one turn above the heading
C26_Witness ==
  /\ ~isFirstUpdate
  /\ ~sample.first
  /\ heading = 90
  /\ cumulativeRotationRef = 450

\* C27: after every sample previousAngleRef is the latest heading and
\* cumulativeRotationRef is congruent to the heading modulo 360.
C27_CumulativeCongruent ==
  ~isFirstUpdate =>
     /\ previousAngleRef = heading
     /\ (cumulativeRotationRef - heading) % 360 = 0

\* the heading went from 10 down to 350: the accumulated rotation is -10
C27_Witness ==
  /\ ~isFirstUpdate
  /\ ~sample.first
  /\ sample.from = 10
  /\ heading = 350
  /\ previousAngleRef = 350
  /\ cumulativeRotationRef = -10

\* C28: the haptic near North is triggered only by a heading of at most 5 or
\* at least 355 degrees, and at least 1000 ms after the trigger before it.
C28_HapticDebounce ==
  [][(compassSub' = compassSub /\ sample'.haptic) =>
       \E raw \in RawAngles, dt \in SampleGaps :
         /\ MagnetometerListener(raw, dt)
         /\ heading' <= 5 \/ heading' >= 355
         /\ northHapticAge + dt >= 1000
         /\ northHapticAge' = 0
    ]_vars

\* a later sample of 355 degrees triggered the haptic
C28_Witness ==
  /\ ~sample.first
  /\ sample.haptic
  /\ heading = 355
  /\ northHapticAge = 0


(* ------------------------------------------------------------------------ *)
(* The two sensor screens from mount to unmount                               *)
(* ------------------------------------------------------------------------ *)
\* samples of the two sensors while the screens come and go
ScreenAngles == {0, 90}
ScreenTilts == {0, 21}

NextScreens ==
  \/ CompassMount
  \/ \E raw \in ScreenAngles, dt \in SampleGaps : MagnetometerListener(raw, dt)
  \/ CompassUnmount
  \/ LevelMount
  \/ \E xAngleDeg \in ScreenTilts, yAngleDeg \in ScreenTilts, dt \in SampleGaps :
       AccelerometerListener(xAngleDeg, yAngleDeg, dt)
  \/ LevelUnmount

SpecScreens == Init /\ [][NextScreens]_vars

\* C29: when the compass or the level screen is unmounted its sensor
\* listener is removed: no listener of an unmounted screen remains, and no
\* callback of it runs any more.
C29_ListenerRemoved ==
  /\ [](~compassSub.mounted => ~compassSub.listening)
  /\ [](~levelSub.mounted => ~levelSub.listening)
  /\ [][~compassSub.mounted => UNCHANGED <<heading, sample>>]_vars
  /\ [][~levelSub.mounted => UNCHANGED <<xAngle, yAngle>>]_vars


(* ------------------------------------------------------------------------ *)
(* PreferencesProvider (src/src/context/PreferencesContext.tsx)               *)
(*                                                                            *)
(* storage is the AsyncStorage content of the two keys ("null": no item).    *)
(* load is the position of loadPreferences: "start" before the effect of     *)
(* line 58 has called it, "reading" while the two getItem calls of lines     *)
(* 75-78 are outstanding (a value read is kept until Promise.all resolves),  *)
(* "done" after it returned.  pendingWrites are the setItem calls not yet    *)
(* settled, oldest first; toggles counts the calls of the two toggles.       *)
(* ------------------------------------------------------------------------ *)
\* the toggles are called at most this many times
MaxToggles == 2

\* what AsyncStorage holds for a key when the application starts
StoredValues == {"null", "true", "false"}

\* newValue.toString()
BoolToString(b) == IF b THEN "true" ELSE "false"

\* the provider as constructed (lines 50-51) over the storage left by
\* earlier runs of the application
InitStored ==
  /\ InitFlashlight /\ scope = ScopeOff /\ InitCompass /\ InitLevel
  /\ isDarkMode = FALSE
  /\ \E d \in StoredValues, f \in StoredValues :
       storage = [DARK_MODE |-> d, LAUNCH_FLASHLIGHT |-> f]
  /\ load = NotLoaded
  /\ pendingWrites = <<>>
  /\ toggles = 0

\* setLaunchWithFlashlightOn(v): when the value changes the second effect of
\* the FlashlightScreen runs (lines 562-566)
setLaunchWithFlashlightOn(v) ==
  /\ launchWithFlashlightOn' = v
  /\ IF v # launchWithFlashlightOn /\ mounted
     THEN Commit(launchEffectState(Cur, v, permission), "preference", 0, NoLoop)
     ELSE UNCHANGED <<uiVars, event, scope>>
  /\ UNCHANGED <<permission, mounted, loops, starts>>

\* lines 58-60 and 73-78: the effect calls loadPreferences, which issues the
\* two getItem calls
loadPreferences ==
  /\ load.at = "start"
  /\ load' = [load EXCEPT !.at = "reading"]
  /\ UNCHANGED <<isDarkMode, storage, pendingWrites, toggles>>
  /\ UNCHANGED <<flashVars, compassVars, levelVars>>

\* AsyncStorage serves the getItem of STORAGE_KEYS.DARK_MODE
GetDarkMode ==
  /\ load.at = "reading"
  /\ load.darkMode = "pending"
  /\ load' = [load EXCEPT !.darkMode = storage.DARK_MODE]
  /\ UNCHANGED <<isDarkMode, storage, pendingWrites, toggles>>
  /\ UNCHANGED <<flashVars, compassVars, levelVars>>

\* AsyncStorage serves the getItem of STORAGE_KEYS.LAUNCH_FLASHLIGHT
GetLaunchFlashlight ==
  /\ load.at = "reading"
  /\ load.launchFlashlight = "pending"
  /\ load' = [load EXCEPT !.launchFlashlight = storage.LAUNCH_FLASHLIGHT]
  /\ UNCHANGED <<isDarkMode, storage, pendingWrites, toggles>>
  /\ UNCHANGED <<flashVars, compassVars, levelVars>>

\* Promise.all resolves: lines 80-86
LoadResolves ==
  /\ load.at = "reading"
  /\ load.darkMode # "pending"
  /\ load.launchFlashlight # "pending"
  /\ load' = [load EXCEPT !.at = "done"]
  /\ isDarkMode' = IF load.darkMode # "null" THEN load.darkMode = "true"
                   ELSE isDarkMode
  /\ setLaunchWithFlashlightOn(
       IF load.launchFlashlight # "null" THEN load.launchFlashlight = "true"
       ELSE launchWithFlashlightOn)
  /\ UNCHANGED <<storage, pendingWrites, toggles>>
  /\ UNCHANGED <<compassVars, levelVars>>

\* a getItem rejects: Promise.all rejects, the catch of lines 87-89 logs
LoadRejects ==
  /\ load.at = "reading"
  /\ load' = [load EXCEPT !.at = "done"]
  /\ UNCHANGED <<isDarkMode, storage, pendingWrites, toggles>>
  /\ UNCHANGED <<flashVars, compassVars, levelVars>>

\* lines 101-109, up to the await of setItem
toggleDarkMode ==
  /\ toggles < MaxToggles
  /\ toggles' = toggles + 1
  /\ isDarkMode' = ~isDarkMode
  /\ pendingWrites' = Append(pendingWrites,
                             [key |-> "DARK_MODE",
                              value |-> BoolToString(~isDarkMode)])
  /\ UNCHANGED <<storage, load>>
  /\ UNCHANGED <<flashVars, compassVars, levelVars>>

\* lines 120-128, up to the await of setItem
toggleLaunchWithFlashlightOn ==
  /\ toggles < MaxToggles
  /\ toggles' = toggles + 1
  /\ setLaunchWithFlashlightOn(~launchWithFlashlightOn)
  /\ pendingWrites' = Append(pendingWrites,
                             [key |-> "LAUNCH_FLASHLIGHT",
                              value |-> BoolToString(~launchWithFlashlightOn)])
  /\ UNCHANGED <<isDarkMode, storage, load>>
  /\ UNCHANGED <<compassVars, levelVars>>

\* the oldest setItem settles: it stored the value (ok) or it rejected and
\* the catch of lines 106-108 / 125-127 logged the error
SetItemSettles(ok) ==
  /\ pendingWrites # <<>>
  /\ pendingWrites' = Tail(pendingWrites)
  /\ storage' = IF ok
                THEN [storage EXCEPT
                        ![Head(pendingWrites).key] = Head(pendingWrites).value]
                ELSE storage
  /\ UNCHANGED <<isDarkMode, load, toggles>>
  /\ UNCHANGED <<flashVars, compassVars, levelVars>>

NextPrefs ==
  \/ loadPreferences
  \/ GetDarkMode
  \/ GetLaunchFlashlight
  \/ LoadResolves
  \/ LoadRejects
  \/ toggleDarkMode
  \/ toggleLaunchWithFlashlightOn
  \/ \E ok \in BOOLEAN : SetItemSettles(ok)
  \/ \E p \in {"denied", "granted"} : PermissionResult(p)

SpecPrefs == InitStored /\ [][NextPrefs]_vars

\* the value a key persists: an absent item is the default, false
Persisted(key) == storage[key] = "true"

\* loadPreferences has returned and no setItem is outstanding
Settled == load.at = "done" /\ pendingWrites = <<>>

\* C30: once loadPreferences and all pending writes have finished, each
\* preference in memory equals its persisted value, whatever the
\* interleaving of the load with toggles and whatever the outcome of the
\* writes.
C30_MemoryEqualsStorage ==
  Settled =>
     /\ isDarkMode = Persisted("DARK_MODE")
     /\ launchWithFlashlightOn = Persisted("LAUNCH_FLASHLIGHT")

====
